---- MODULE Spec2Model ----
(***************************************************************************)
(* The time-series viewer of the benchmark dashboard: the chunked, cached, *)
(* range-fetching TimeseriesDataClient (web-ui/src/hooks), the pan / zoom  *)
(* / select state of TimeseriesView with its range loads, and the render   *)
(* throttle of the drawing worker (web-ui/src/components/dataset).         *)
(*                                                                         *)
(* Representation: a typed array is a sequence of integers (a float32      *)
(* element is represented by its IEEE-754 bit pattern); an ArrayBuffer is  *)
(* a sequence of bytes; a promise of fetchChunk is the id of the network   *)
(* request that settles it.  JavaScript runs each synchronous stretch of   *)
(* code to completion, so every action below is one such stretch together  *)
(* with the promise continuations it releases.                             *)
(***************************************************************************)
EXTENDS Integers, Sequences, FiniteSets, TLC

VARIABLES
  info,               \* the dataset: what the metadata endpoint and the blob hold
  shape,              \* TimeseriesDataClient.shape
  numChannels,        \* TimeseriesDataClient.numChannels
  dtype,              \* TimeseriesDataClient.dtype ("null" before initialize)
  chunkSize,          \* TimeseriesDataClient.chunkSize
  cache,              \* TimeseriesDataClient.cache: chunk index -> typed array
  inProgressFetches,  \* TimeseriesDataClient.inProgressFetches: chunk index -> promise
  network,            \* the HTTP range requests that have not been answered yet
  calls,              \* the fetchRange calls suspended at their await
  settled,            \* the fetchRange calls the latest step resolved or rejected
  covered,            \* chunk indices asked for by a fetchRange that resolved
  \* TimeseriesView (the client above is the one of useTimeseriesDataClient)
  xRange,             \* reducer state xRange: [min, max], each a rational <<n, d>>
  selectedIndex,      \* reducer state selectedIndex (-1: none)
  isDragging,         \* reducer state isDragging
  lastDragX,          \* reducer state lastDragX
  selectedChannel,    \* useState selectedChannel (AllChannels for "all")
  numChannelsState,   \* useState numChannels
  view,               \* useState dataT, dataY, dataYAll, error, isLoading
  loads,              \* the loadRangeData runs suspended at their await, oldest first
  client,             \* useTimeseriesDataClient: whether setClient has run
  rangeOps,           \* pans, zooms and navigation clicks since the last zoom reset
  \* the drawing worker
  ctx,                \* "none" before initialize, then "2d", or "null" when getContext failed
  renderStack,        \* renderStack: the requests pushed, oldest first
  sinceLastRender,    \* Date.now() - lastRenderTime in ms, held at Saturated beyond the interval
  timers,             \* the pending setTimeout(checkRender, ...): ms left of each, ascending
  received,           \* how many render requests the worker has received
  executed,           \* the requests whose render callback ran, in order
  painted,            \* the requests whose frame renderTimeseries painted
  messages,           \* the render messages received: request n carries messages[n]
  frames,             \* request -> what renderTimeseries painted for it
  acks,               \* the requests render_complete was posted for, in order
  sinceFirst,         \* ms since the first request of the latest burst, held at Saturated
  burstFirst,         \* the first request of the latest burst (0: none yet)
  burstIdle,          \* whether the worker had not rendered in the interval before it
  \* DatasetContent, and the comparison state of TimeseriesView
  reconstructedInfo,  \* useState reconstructedInfo: "null" or the algorithm selected
  reconstructedDataset, \* its datasetUrl and datasetJsonUrl: the dataset they are of (0: null)
  comparisonMode,     \* useState comparisonMode
  reconstructedClient, \* useState reconstructedClient: NoClient or a client
  dataYReconstructed, \* useState dataYReconstructed
  dataYResiduals,     \* useState dataYResiduals
  reconCreates,       \* the initClient runs suspended at TimeseriesDataClient.create
  reconLoads,         \* the loadReconstructedData runs suspended at fetchRange
  \* the canvas and the workers of TimeseriesView
  canvasElement,      \* useState canvasElement: 0 (null) or the canvas mounted
  worker,             \* useState worker: 0 (null) or the worker setWorker stored
  workers,            \* the workers created: the messages sent to each, and whether terminated
  cleanup,            \* the worker the cleanup of the worker effect terminates (0: no cleanup)
  \* useTimeseriesDataClient
  dataset,            \* the dataset prop: which dataset is selected for viewing
  creates,            \* the initClient runs suspended at TimeseriesDataClient.create: the dataset of each
  clientOf,           \* useState client: 0 (null) or the dataset the client was created for
  clientError,        \* useState error: "null" or the message
  \* BenchmarkView
  tabsState,          \* useReducer(tabsReducer): tabs (the id of each) and activeTabId
  tabAction,          \* the action tabsReducer reduced last
  \* getTickPositions
  tickRun             \* the call in progress: its arguments, its locals and its loop position

clientVars == <<info, shape, numChannels, dtype, chunkSize, cache,
                inProgressFetches, network, calls, settled, covered>>

viewVars == <<xRange, selectedIndex, isDragging, lastDragX, selectedChannel,
              numChannelsState, view, loads, client, rangeOps>>

workerVars == <<ctx, renderStack, sinceLastRender, timers, received, executed,
                painted, messages, frames, acks, sinceFirst, burstFirst,
                burstIdle>>

compareVars == <<reconstructedInfo, reconstructedDataset, comparisonMode,
                 reconstructedClient,
                 dataYReconstructed, dataYResiduals, reconCreates, reconLoads>>

canvasVars == <<canvasElement, worker, workers, cleanup>>

hookVars == <<dataset, creates, clientOf, clientError>>

tabVars == <<tabsState, tabAction>>

tickVars == <<tickRun>>

vars == <<clientVars, viewVars, workerVars, compareVars, canvasVars, hookVars,
          tabVars, tickVars>>

----------------------------------------------------------------------------
(* Bounds of the model *)

MaxShape == 3       \* datasets have MaxShape-1 or MaxShape timepoints
MaxChannels == 2    \* datasets have 1..MaxChannels channels
MaxChunkSize == 2   \* the client is built with chunkSize MaxChunkSize
MaxPending == 2     \* fetchRange calls suspended at the same time
MaxRangeOps == 2    \* pans, zooms and navigation clicks between two zoom resets
Width == 74         \* the width prop of TimeseriesView, in pixels
MaxRequests == 3    \* render requests sent to one worker
TickMs == 50        \* the step of the worker's clock, in ms
MaxReconCreates == 2 \* TimeseriesDataClient.create calls for reconstructed data suspended at the same time
MaxReconLoads == 1  \* loadReconstructedData runs suspended at the same time
MaxCanvases == 3    \* canvas elements TimeseriesView mounts
ZoomShape == 1500   \* timepoints of the dataset whose window is zoomed
MaxSeries == 2      \* samples of a series given to the residual computation

----------------------------------------------------------------------------
(* Helpers *)

Min(a, b) == IF a < b THEN a ELSE b
Max(a, b) == IF a > b THEN a ELSE b

RECURSIVE Pow(_, _)
Pow(b, e) == IF e = 0 THEN 1 ELSE b * Pow(b, e - 1)

SeqRange(f) == {f[i] : i \in DOMAIN f}

EmptyMap == [k \in {} |-> 0]

Remove(f, k) == [j \in DOMAIN f \ {k} |-> f[j]]

RemoveAt(seq, i) == SubSeq(seq, 1, i - 1) \o SubSeq(seq, i + 1, Len(seq))

----------------------------------------------------------------------------
(* Element types *)

DTypes == {"uint8", "uint16", "uint32", "int16", "int32", "float32"}

\* The keys TypedArrayConstructors inherits from Object.prototype: the `in`
\* operator finds them as it finds the six own keys.
PrototypeKeys ==
  {"constructor", "toString", "toLocaleString", "valueOf", "hasOwnProperty",
   "isPrototypeOf", "propertyIsEnumerable", "__proto__"}

\* isValidDType(dtype): dtype in TypedArrayConstructors
isValidDType(d) == d \in DTypes \cup PrototypeKeys

\* TypedArrayConstructors[dtype].BYTES_PER_ELEMENT
BytesPerElement(d) ==
  CASE d = "uint8" -> 1
    [] d \in {"uint16", "int16"} -> 2
    [] d \in {"uint32", "int32", "float32"} -> 4

RECURSIVE LittleEndian(_)
LittleEndian(bytes) ==
  IF bytes = <<>> THEN 0 ELSE Head(bytes) + 256 * LittleEndian(Tail(bytes))

\* One element of `new ArrayConstructor(buffer)`: the platform's (little-endian)
\* reading of BytesPerElement bytes, two's complement for the signed types.
DecodeElement(bytes, d) ==
  LET u == LittleEndian(bytes)
      w == 8 * BytesPerElement(d)
  IN IF d \in {"int16", "int32"} /\ u >= Pow(2, w - 1) THEN u - Pow(2, w) ELSE u

\* new ArrayConstructor(buffer): the buffer read as consecutive elements.
TypedArray(buffer, d) ==
  LET sz == BytesPerElement(d)
  IN [i \in 1..(Len(buffer) \div sz) |->
        DecodeElement(SubSeq(buffer, (i - 1) * sz + 1, i * sz), d)]

\* chunk[i] with a 0-based index; a read outside the array gives undefined,
\* which a typed array stores as 0.
At(arr, i) == IF i + 1 \in DOMAIN arr THEN arr[i + 1] ELSE 0

----------------------------------------------------------------------------
(* The raw-data endpoint *)

\* Byte b (0-based) of the dataset's blob.  Every fourth byte is below 128, so
\* that a 32-bit element stays below 2^31 and TLC's integers hold it; 8- and
\* 16-bit elements take all their values, the negative ones included.
BlobByte(b) == IF b % 4 = 3 THEN (b * 89 + 131) % 128 ELSE (b * 89 + 131) % 256

\* The bytes of one element of the blob; the metadata of a blob of doubles
\* names "float64", and a blob whose metadata names no element type is taken
\* as bytes.
BlobElementSize ==
  IF info.dtype \in DTypes THEN BytesPerElement(info.dtype)
  ELSE IF info.dtype = "float64" THEN 8 ELSE 1

BlobSize == info.shape * info.numChannels * BlobElementSize

BlobBytes(first, last) == [i \in 1..(last - first + 1) |-> BlobByte(first + i - 1)]

\* Element i (0-based) of the interleaved blob [timepoint][channel].
SourceElement(i) ==
  LET sz == BytesPerElement(info.dtype)
  IN DecodeElement(BlobBytes(i * sz, i * sz + sz - 1), info.dtype)

\* What an HTTP server answers to "Range: bytes=first-last".  A satisfiable
\* range gets 206 with the bytes; a range with last < first is malformed and
\* one starting at or after the end is unsatisfiable: the server answers 416,
\* or ignores the header and sends the whole blob with 200.
ServerResponses(first, last) ==
  IF first <= last /\ first < BlobSize
    THEN {[ok |-> TRUE, status |-> 206,
           body |-> BlobBytes(first, Min(last, BlobSize - 1))]}
    ELSE {[ok |-> FALSE, status |-> 416, body |-> <<>>],
          [ok |-> TRUE, status |-> 200, body |-> BlobBytes(0, BlobSize - 1)]}

\* fetch() rejects when the network fails.
NetworkError == [ok |-> FALSE, status |-> 0, body |-> <<>>]

----------------------------------------------------------------------------
(* TimeseriesDataClient *)

\* Math.floor(start / chunkSize) .. Math.floor(end / chunkSize)
getChunkIndices(start, end) ==
  LET startChunk == start \div chunkSize
      endChunk == end \div chunkSize
  IN [i \in 1..(endChunk - startChunk + 1) |-> startChunk + i - 1]

\* The three ways fetchChunk answers: the cached array, the pending promise
\* of a fetch in progress, or a new request.
fetchChunkNoJoin(chunkIndex, inflight) ==
  IF chunkIndex \in DOMAIN cache THEN "cached" ELSE "new"

fetchChunkNoCache(chunkIndex, inflight) ==
  IF chunkIndex \in DOMAIN inflight THEN "join" ELSE "new"

fetchChunk(chunkIndex, inflight) ==
  IF chunkIndex \in DOMAIN cache THEN "cached"
  ELSE IF chunkIndex \in DOMAIN inflight THEN "join"
  ELSE "new"

\* The Range header of the request fetchChunk issues for a chunk.  With a
\* dtype that is an inherited key, BYTES_PER_ELEMENT is undefined and the
\* header is "bytes=NaN-NaN": a malformed range, written here as 0 to -1.
ChunkRequest(chunkIndex) ==
  LET start == chunkIndex * chunkSize
      end == Min(start + chunkSize, shape)
      itemSize == BytesPerElement(dtype)
      byteStart == start * numChannels * itemSize
      byteEnd == end * numChannels * itemSize
  IN IF dtype \in DTypes
       THEN [chunk |-> chunkIndex, first |-> byteStart, last |-> byteEnd - 1]
       ELSE [chunk |-> chunkIndex, first |-> 0, last |-> -1]

FreshId(net) == CHOOSE i \in 1..(Cardinality(net) + 1) : \A r \in net : r.id # i

\* chunkIndices.map((idx) => this.fetchChunk(idx)): the chunks in order, each
\* answered from the cache, joined to the pending promise, or requested.
RECURSIVE FetchChunks(_, _, _)
FetchChunks(idxs, i, acc) ==
  IF i > Len(idxs) THEN acc
  ELSE
    LET k == idxs[i]
        how == fetchChunk(k, acc.inflight)
    IN CASE how = "cached" ->
              FetchChunks(idxs, i + 1, [acc EXCEPT !.got = @ @@ (k :> cache[k])])
         [] how = "join" ->
              FetchChunks(idxs, i + 1,
                          [acc EXCEPT !.waiting = @ \cup {acc.inflight[k]}])
         [] how = "new" ->
              LET id == FreshId(acc.net)
              IN FetchChunks(idxs, i + 1,
                   [acc EXCEPT !.net = @ \cup {ChunkRequest(k) @@ [id |-> id]},
                               !.inflight = (k :> id) @@ @,
                               !.waiting = @ \cup {id},
                               !.issued = @ \cup {k}])

\* The copy loop of fetchRange over the resolved chunks.
RECURSIVE CopyChunks(_, _, _, _, _)
CopyChunks(idxs, got, start, end, channel) ==
  IF idxs = <<>> THEN <<>>
  ELSE
    LET chunk == got[Head(idxs)]
        chunkStart == Head(idxs) * chunkSize
        copyStart == Max(0, start - chunkStart)
        \* chunk.length / numChannels is a whole number for every body the
        \* endpoint sends
        copyEnd == Min(Len(chunk) \div numChannels, end - chunkStart)
    IN [j \in 1..Max(0, copyEnd - copyStart) |->
          At(chunk, (copyStart + j - 1) * numChannels + channel)]
       \o CopyChunks(Tail(idxs), got, start, end, channel)

\* result = new ArrayConstructor(end - start), filled from offset 0; writes
\* past its length are dropped and what is not written stays 0.
RangeResult(call) ==
  LET copied == CopyChunks(call.chunkIndices, call.got, call.start, call.end,
                           call.channel)
  IN [j \in 1..(call.end - call.start) |->
        IF j <= Len(copied) THEN copied[j] ELSE 0]

Reject(call, message) ==
  [call EXCEPT !.status = "rejected", !.error = message]

\* The code of fetchRange after its await; new ArrayConstructor(length)
\* throws a RangeError for a negative length.
Resolve(call) ==
  IF call.end < call.start THEN Reject(call, "RangeError")
  ELSE [call EXCEPT !.status = "resolved", !.result = RangeResult(call)]

\* initialize(): reads the metadata.  A response that is not ok throws
\* before anything is assigned; otherwise shape and numChannels are assigned,
\* and the dtype when isValidDType accepts it.
Initialize ==
  /\ dtype = "null"
  /\ shape = 0
  /\ \E ok \in BOOLEAN :
       IF ok
         THEN /\ shape' = info.shape
              /\ numChannels' = info.numChannels
              /\ dtype' = IF isValidDType(info.dtype) THEN info.dtype ELSE "null"
         ELSE UNCHANGED <<shape, numChannels, dtype>>
  /\ settled' = {}
  /\ UNCHANGED <<info, chunkSize, cache, inProgressFetches, network, calls, covered>>
  /\ UNCHANGED <<viewVars, workerVars, compareVars, canvasVars, hookVars, tabVars, tickVars>>

\* The finally block of fetchChunk's async body: the in-progress entry goes,
\* whether the fetch succeeded or failed.
finallyDeleteOnSuccessOnly(inflight, chunkIndex, good) ==
  IF good THEN Remove(inflight, chunkIndex) ELSE inflight

finallyDelete(inflight, chunkIndex, good) == Remove(inflight, chunkIndex)

\* this.cache[chunkIndex] = data, reached only when the response was ok.
storeChunkEmptyOnFailure(c, chunkIndex, data, good) ==
  IF good THEN (chunkIndex :> data) @@ c ELSE (chunkIndex :> <<>>) @@ c

storeChunk(c, chunkIndex, data, good) ==
  IF good THEN (chunkIndex :> data) @@ c ELSE c

\* The mutable part of the client and of its callers, as one record, so that
\* several calls made in one synchronous stretch can be chained.
ClientState ==
  [network |-> network, inProgressFetches |-> inProgressFetches,
   calls |-> calls, settled |-> {}, covered |-> covered]

\* The channel test of fetchRange: channel < 0 || channel >= this.numChannels.
invalidChannelNever(channel) == FALSE

invalidChannel(channel) == channel < 0 \/ channel >= numChannels

\* fetchRange(start, end, channel) up to its await; when every chunk is
\* cached the await is passed without an answer from the network.
fetchRange(st, start, end, channel, tag) ==
  LET chunkIndices == getChunkIndices(start, end)
      f == FetchChunks(chunkIndices, 1,
             [net |-> st.network, inflight |-> st.inProgressFetches,
              waiting |-> {}, got |-> EmptyMap, issued |-> {}])
      call == [tag |-> tag, start |-> start, end |-> end, channel |-> channel,
               chunkIndices |-> chunkIndices, waiting |-> f.waiting,
               got |-> f.got, issued |-> f.issued,
               repeat |-> SeqRange(chunkIndices) \subseteq st.covered,
               status |-> "pending", result |-> <<>>, error |-> ""]
      \* a call that throws before getChunkIndices
      thrown == [tag |-> tag, start |-> start, end |-> end, channel |-> channel,
                 chunkIndices |-> <<>>, waiting |-> {}, got |-> EmptyMap,
                 issued |-> {}, repeat |-> FALSE,
                 status |-> "pending", result |-> <<>>, error |-> ""]
  IN IF dtype = "null"
       THEN [st EXCEPT !.settled = @ \cup
               {Reject(thrown, "Data type not initialized")}]
     ELSE IF invalidChannel(channel)
       THEN [st EXCEPT !.settled = @ \cup {Reject(thrown, "Invalid channel")}]
     ELSE IF f.waiting = {}
       THEN [st EXCEPT !.network = f.net, !.inProgressFetches = f.inflight,
                       !.settled = @ \cup {Resolve(call)},
                       !.covered = @ \cup IF Resolve(call).status = "resolved"
                                            THEN SeqRange(chunkIndices) ELSE {}]
     ELSE [st EXCEPT !.network = f.net, !.inProgressFetches = f.inflight,
                     !.calls = @ \cup {call}]

\* Array.from({length: numChannels}, (_, ch) => client.fetchRange(start, end, ch))
RECURSIVE fetchAllChannels(_, _, _, _, _)
fetchAllChannels(st, start, end, ch, tag) ==
  IF ch >= numChannels THEN st
  ELSE fetchAllChannels(fetchRange(st, start, end, ch, tag), start, end, ch + 1, tag)

\* Whether a response gives a chunk: response.ok, and a body of a whole
\* number of elements (new ArrayConstructor(buffer) throws otherwise).  For
\* the dtype "toString" the constructor looked up is Object.prototype.toString,
\* which `new` refuses with a TypeError.
GoodResponse(resp) ==
  /\ resp.ok
  /\ dtype \in DTypes
  /\ Len(resp.body) % BytesPerElement(dtype) = 0

\* The answer to one request: the rest of fetchChunk's async body, and the
\* continuation of every fetchRange whose Promise.all it settles.
respond(st, req, resp) ==
  LET good == GoodResponse(resp)
      data == TypedArray(resp.body, dtype)
      message == IF resp.status = 0 THEN "Failed to fetch"
                 ELSE IF ~resp.ok THEN "Failed to fetch chunk"
                 ELSE IF dtype \notin DTypes THEN "TypeError"
                 ELSE "RangeError"
      waiters == {c \in st.calls : req.id \in c.waiting}
      step(c) == IF ~good THEN Reject(c, message)
                 ELSE LET d == [c EXCEPT !.waiting = @ \ {req.id},
                                         !.got = (req.chunk :> data) @@ @]
                      IN IF d.waiting = {} THEN Resolve(d) ELSE d
      after == {step(c) : c \in waiters}
  IN [network |-> st.network \ {req},
      inProgressFetches |-> finallyDelete(st.inProgressFetches, req.chunk, good),
      calls |-> (st.calls \ waiters) \cup {c \in after : c.status = "pending"},
      settled |-> {c \in after : c.status # "pending"},
      covered |-> st.covered \cup
        UNION {SeqRange(c.chunkIndices) : c \in {x \in after : x.status = "resolved"}}]

Commit(st) ==
  /\ network' = st.network
  /\ inProgressFetches' = st.inProgressFetches
  /\ calls' = st.calls
  /\ settled' = st.settled
  /\ covered' = st.covered

\* A caller calls fetchRange(start, end, channel).
FetchRange(start, end, channel) ==
  /\ Cardinality(calls) < MaxPending
  /\ Commit(fetchRange(ClientState, start, end, channel, 0))
  /\ UNCHANGED <<info, shape, numChannels, dtype, chunkSize, cache>>
  /\ UNCHANGED <<viewVars, workerVars, compareVars, canvasVars, hookVars, tabVars, tickVars>>

\* A caller asks for every channel of a range at once, as the all-channels
\* view does.
FetchAllChannels(start, end) ==
  /\ dtype # "null"
  /\ numChannels > 1
  /\ Cardinality(calls) + numChannels <= MaxPending
  /\ Commit(fetchAllChannels(ClientState, start, end, 0, 0))
  /\ UNCHANGED <<info, shape, numChannels, dtype, chunkSize, cache>>
  /\ UNCHANGED <<viewVars, workerVars, compareVars, canvasVars, hookVars, tabVars, tickVars>>

\* The network answers a request.
Respond(req, resp) ==
  /\ req \in network
  /\ cache' = storeChunk(cache, req.chunk, TypedArray(resp.body, dtype),
                         GoodResponse(resp))
  /\ Commit(respond(ClientState, req, resp))
  /\ UNCHANGED <<info, shape, numChannels, dtype, chunkSize>>
  /\ UNCHANGED <<viewVars, workerVars, compareVars, canvasVars, hookVars, tabVars, tickVars>>

----------------------------------------------------------------------------
(* Numbers of the viewer: exact rationals <<n, d>> with d > 0 in lowest    *)
(* terms.  The code computes in doubles; the comparisons and clamps below  *)
(* are those of the code, taken on the exact values.                       *)

RECURSIVE Gcd(_, _)
Gcd(a, b) == IF b = 0 THEN a ELSE Gcd(b, a % b)

Abs(n) == IF n < 0 THEN -n ELSE n

Norm(n, d) ==
  LET g == Gcd(Abs(n), Abs(d))
      sgn == IF d < 0 THEN -1 ELSE 1
  IN <<sgn * (n \div g), sgn * (d \div g)>>

R(n) == <<n, 1>>

RAdd(a, b) == Norm(a[1] * b[2] + b[1] * a[2], a[2] * b[2])
RSub(a, b) == Norm(a[1] * b[2] - b[1] * a[2], a[2] * b[2])
RMul(a, b) == Norm(a[1] * b[1], a[2] * b[2])
RDiv(a, b) == Norm(a[1] * b[2], a[2] * b[1])
RLt(a, b) == a[1] * b[2] < b[1] * a[2]
RLe(a, b) == a[1] * b[2] <= b[1] * a[2]
RMin(a, b) == IF RLt(b, a) THEN b ELSE a
RMax(a, b) == IF RLt(a, b) THEN b ELSE a

\* Math.floor, Math.ceil, Math.round (a half rounds up)
Floor(a) == a[1] \div a[2]
Ceil(a) == -((-a[1]) \div a[2])
Round(a) == Floor(RAdd(a, <<1, 2>>))

----------------------------------------------------------------------------
(* TimeseriesView: state *)

\* The reducer's initialState and the useState defaults of TimeseriesView.
\* The hook builds the client with chunkSize 1000 and the first window is
\* {0, 999}, one chunk; the model keeps that relation at its chunk size.
InitialMax == MaxChunkSize - 1

AllChannels == -1

Null == [set |-> FALSE, v |-> <<>>]
Some(v) == [set |-> TRUE, v |-> v]

ViewInit ==
  /\ xRange = [min |-> R(0), max |-> R(InitialMax)]
  /\ selectedIndex = -1
  /\ isDragging = FALSE
  /\ lastDragX = 0
  /\ selectedChannel = 0
  /\ numChannelsState = 1
  /\ view = [dataT |-> Null, dataY |-> Null, dataYAll |-> Null,
             error |-> "null", isLoading |-> FALSE]
  /\ loads = <<>>
  /\ client = FALSE
  /\ rangeOps = 0

\* No reconstructed client.
NoClient == [algorithm |-> "null"]

\* DatasetContent's and TimeseriesView's comparison state after mounting.
CompareInit ==
  /\ reconstructedInfo = "null"
  /\ reconstructedDataset = 0
  /\ comparisonMode = "original"
  /\ reconstructedClient = NoClient
  /\ dataYReconstructed = Null
  /\ dataYResiduals = Null
  /\ reconCreates = <<>>
  /\ reconLoads = <<>>

\* TimeseriesView before its canvas is mounted: no canvas, no worker.
CanvasInit ==
  /\ canvasElement = 0
  /\ worker = 0
  /\ workers = <<>>
  /\ cleanup = 0

\* useTimeseriesDataClient at its first render: the client is null and the
\* effect has called create for the dataset it was given.
HookInit ==
  /\ dataset = 1
  /\ creates = <<1>>
  /\ clientOf = 0
  /\ clientError = "null"

\* useTimeseriesDataClient once that create has resolved.
HookSettled ==
  /\ dataset = 1
  /\ creates = <<>>
  /\ clientOf = 1
  /\ clientError = "null"

\* BenchmarkView at its first render: the initial state given to useReducer.
TabsInit ==
  /\ tabsState = [tabs |-> <<"datasets", "algorithms">>,
                  activeTabId |-> "datasets"]
  /\ tabAction = [type |-> "none", payload |-> "none"]

\* No call of getTickPositions is in progress.
NoTickRun == tickRun = [pc |-> "idle"]

----------------------------------------------------------------------------
(* TimeseriesView: loading the data of the current range *)

\* The early returns of the component: the error text or "Loading..." is
\* rendered instead of the bar, the buttons and the canvases.
Rendered == view.error = "null" /\ ~(view.isLoading /\ ~view.dataY.set)

\* loadRangeData after its await: setDataY / setDataYAll, setDataT,
\* setError(null), and setIsLoading(false) in the finally block.
LoadSucceeds(v, load, data) ==
  [dataT |-> Some([i \in 1..Max(0, load.end - load.start) |-> load.start + i - 1]),
   dataY |-> IF load.channel = AllChannels THEN Null ELSE Some(data),
   dataYAll |-> IF load.channel = AllChannels THEN Some(data) ELSE Null,
   error |-> "null",
   isLoading |-> FALSE]

\* The catch block: setError(err.message), then setIsLoading(false).
LoadFails(v, message) == [v EXCEPT !.error = message, !.isLoading = FALSE]

\* One suspended loadRangeData meets the fetchRange calls that have just
\* settled: it fails with the first rejection, goes on when every channel
\* it awaits has its samples, and stays suspended otherwise.
LoadStep(v, load, done) ==
  LET mine == {c \in done : c.tag = load.id}
      bad == {c \in mine : c.status = "rejected"}
      got == [ch \in DOMAIN load.got \cup {c.channel : c \in mine \ bad} |->
                IF ch \in DOMAIN load.got THEN load.got[ch]
                ELSE (CHOOSE c \in mine : c.channel = ch).result]
      wanted == IF load.channel = AllChannels THEN 0..(load.nch - 1)
                ELSE {load.channel}
  IN IF bad # {}
       THEN [view |-> LoadFails(v, (CHOOSE c \in bad : TRUE).error),
             over |-> TRUE, load |-> load]
     ELSE IF wanted \subseteq DOMAIN got
       THEN [view |-> LoadSucceeds(v, load,
                        IF load.channel = AllChannels
                          THEN [i \in 1..load.nch |-> got[i - 1]]
                          ELSE got[load.channel]),
             over |-> TRUE, load |-> load]
     ELSE [view |-> v, over |-> FALSE, load |-> [load EXCEPT !.got = got]]

\* The continuations run oldest load first; an all-channels load passes one
\* more Promise.all and so runs after the single-channel loads.
ResumeOrder(ls) ==
  SelectSeq(ls, LAMBDA l : l.channel # AllChannels)
    \o SelectSeq(ls, LAMBDA l : l.channel = AllChannels)

RECURSIVE ResumeLoads(_, _, _)
ResumeLoads(v, ls, done) ==
  IF ls = <<>> THEN v
  ELSE ResumeLoads(LoadStep(v, Head(ls), done).view, Tail(ls), done)

\* The loads still suspended afterwards, in their order.
RECURSIVE SuspendedLoads(_, _, _)
SuspendedLoads(v, ls, done) ==
  IF ls = <<>> THEN <<>>
  ELSE LET r == LoadStep(v, Head(ls), done)
       IN (IF r.over THEN <<>> ELSE <<r.load>>)
            \o SuspendedLoads(v, Tail(ls), done)

FreshLoad(ls) ==
  CHOOSE i \in 1..(Len(ls) + 1) : \A j \in DOMAIN ls : ls[j].id # i

\* The client's and the viewer's mutable state during one stretch of code.
ViewState ==
  [network |-> network, inProgressFetches |-> inProgressFetches,
   calls |-> calls, settled |-> {}, covered |-> covered,
   view |-> view, loads |-> loads]

\* The "load data for current range" effect, run after a commit that set
\* client, xRange, selectedChannel or numChannels: loadRangeData up to its
\* await, and beyond it when every chunk is cached.
LoadEffect(st, range, channel, nch) ==
  LET start == Floor(range.min)
      end == Ceil(range.max) + 1
      id == FreshLoad(st.loads)
      cl == [network |-> st.network, inProgressFetches |-> st.inProgressFetches,
             calls |-> st.calls, settled |-> {}, covered |-> st.covered]
      after == IF channel = AllChannels
                 THEN fetchAllChannels(cl, start, end, 0, id)
                 ELSE fetchRange(cl, start, end, channel, id)
      load == [id |-> id, start |-> start, end |-> end, channel |-> channel,
               nch |-> nch, got |-> EmptyMap]
      loading == [st.view EXCEPT !.isLoading = TRUE]
      all == Append(st.loads, load)
  IN [network |-> after.network, inProgressFetches |-> after.inProgressFetches,
      calls |-> after.calls, settled |-> st.settled \cup after.settled,
      covered |-> after.covered,
      view |-> ResumeLoads(loading, <<load>>, after.settled),
      loads |-> SuspendedLoads(loading, all, after.settled)]

CommitView(st) ==
  /\ network' = st.network
  /\ inProgressFetches' = st.inProgressFetches
  /\ calls' = st.calls
  /\ settled' = st.settled
  /\ covered' = st.covered
  /\ view' = st.view
  /\ loads' = st.loads

(* TimeseriesView: the reconstructed series and the residuals              *)

\* Byte b of the blob at reconstructedUrl: the dataset put through a lossy
\* algorithm, so the bytes near those of the dataset but not the same.
ReconBlobByte(b) == (BlobByte(b) + 1 + (b % 2)) % 256

ReconBlobBytes(first, last) ==
  [i \in 1..(last - first + 1) |-> ReconBlobByte(first + i - 1)]

\* The answers of the server for the reconstructed blob, which has the size
\* of the dataset's.
ReconServerResponses(first, last) ==
  IF first <= last /\ first < BlobSize
    THEN {[ok |-> TRUE, status |-> 206,
           body |-> ReconBlobBytes(first, Min(last, BlobSize - 1))]}
    ELSE {[ok |-> FALSE, status |-> 416, body |-> <<>>],
          [ok |-> TRUE, status |-> 200, body |-> ReconBlobBytes(0, BlobSize - 1)]}

\* Math.fround on an integer: the nearest number with a significand of 24
\* bits, ties to the even one.  This is what storing into a Float32Array does.
RECURSIVE BitLength(_)
BitLength(m) == IF m = 0 THEN 0 ELSE 1 + BitLength(m \div 2)

Fround(x) ==
  LET m == Abs(x)
      ulp == Pow(2, Max(0, BitLength(m) - 24))
      q == m \div ulp
      r == m % ulp
      up == 2 * r > ulp \/ (2 * r = ulp /\ q % 2 = 1)
      rounded == (IF up THEN q + 1 ELSE q) * ulp
  IN IF x < 0 THEN -rounded ELSE rounded

\* The residual loop of loadReconstructedData: residuals = new
\* Float32Array(dataY.length); residuals[i] = dataY[i] - reconstructedData[i].
computeResiduals(dataY, reconstructedData) ==
  [i \in 1..Len(dataY) |-> Fround(dataY[i] - reconstructedData[i])]

\* The state one stretch of TimeseriesView code works on: that of the loads,
\* the selected channel, and the comparison state.
FullState ==
  ViewState @@
  [selectedChannel |-> selectedChannel,
   reconstructedClient |-> reconstructedClient,
   dataYReconstructed |-> dataYReconstructed,
   dataYResiduals |-> dataYResiduals,
   reconCreates |-> reconCreates,
   reconLoads |-> reconLoads]

\* The "initialize reconstructed data client" effect, without its
\* setSelectedChannel(0): with no reconstruction selected it clears the
\* client and both series, otherwise it starts initClient, which suspends at
\* TimeseriesDataClient.create.
ReconClientEffect(st, rinfo) ==
  IF rinfo = "null"
    THEN [st EXCEPT !.reconstructedClient = NoClient,
                    !.dataYReconstructed = Null,
                    !.dataYResiduals = Null]
    ELSE [st EXCEPT !.reconCreates = Append(@, [algorithm |-> rinfo])]

\* if (selectedChannel === "all") setSelectedChannel(0), of the same effect.
forceChannelNever(rinfo, channel) == channel

forceChannel(rinfo, channel) ==
  IF rinfo # "null" /\ channel = AllChannels THEN 0 ELSE channel

\* The "load reconstructed data for current range" effect: it clears both
\* series, or starts loadReconstructedData, which suspends at fetchRange
\* holding the dataY of the render the effect belongs to.
ReconLoadEffect(st, range, mode, dataY) ==
  IF \/ st.reconstructedClient = NoClient
     \/ st.selectedChannel = AllChannels
     \/ mode = "original"
    THEN [st EXCEPT !.dataYReconstructed = Null, !.dataYResiduals = Null]
    ELSE [st EXCEPT !.reconLoads = Append(@,
            [client |-> st.reconstructedClient,
             start |-> Floor(range.min),
             end |-> Ceil(range.max) + 1,
             channel |-> st.selectedChannel,
             dataY |-> dataY])]

\* The effects of one commit and of the commits they cause.  runLoad,
\* runClient and runRecon say which effects have a changed dependency: the
\* load effect, the reconstructed-client effect, the reconstructed-load
\* effect; they run in this order.  A channel forced to 0 gives a further
\* commit in which all three run; a load that every chunk of which was
\* cached sets dataY afterwards, and the reconstructed-load effect runs again
\* for the new dataY.
RECURSIVE RunEffects(_, _, _, _, _, _, _, _, _)

\* The effects after the load effect, which has turned st into s1.
EffectsAfterLoad(st, s1, cl, range, nch, rinfo, mode, runLoad, runClient, runRecon) ==
  LET s2 == IF runClient THEN ReconClientEffect(s1, rinfo) ELSE s1
      s3 == IF runRecon THEN ReconLoadEffect(s2, range, mode, st.view.dataY)
            ELSE s2
      channel == IF runClient THEN forceChannel(rinfo, st.selectedChannel)
                 ELSE st.selectedChannel
      delivered == /\ runLoad /\ cl
                   /\ Len(s1.loads) = Len(st.loads)
                   /\ s1.view.error = "null"
                   /\ (st.selectedChannel # AllChannels \/ st.view.dataY.set)
  IN IF channel # st.selectedChannel
       THEN RunEffects([s3 EXCEPT !.selectedChannel = channel], cl, range, nch,
                       rinfo, mode, TRUE, TRUE, TRUE)
     ELSE IF delivered
       THEN RunEffects(s3, cl, range, nch, rinfo, mode, FALSE, FALSE, TRUE)
     ELSE s3

RunEffects(st, cl, range, nch, rinfo, mode, runLoad, runClient, runRecon) ==
  CHOOSE result \in
    {EffectsAfterLoad(s0, s1, cl, range, nch, rinfo, mode, runLoad, runClient,
                      runRecon) :
       s0 \in {st},
       s1 \in {IF runLoad /\ cl
                 THEN LoadEffect(st, range, st.selectedChannel, nch) @@ st
                 ELSE st}} : TRUE

\* Whether the loads that resume on `done` end with a new dataY: one for a
\* single channel delivers its samples, or one for all channels clears a
\* dataY that was set.
DataYChanged(v, after, ls, done) ==
  IF after.dataY.set
    THEN \E i \in DOMAIN ls :
           LET r == LoadStep(v, ls[i], done)
           IN r.over /\ r.view.error = "null" /\ ls[i].channel # AllChannels
    ELSE v.dataY.set

CommitCompare(st) ==
  /\ reconstructedClient' = st.reconstructedClient
  /\ dataYReconstructed' = st.dataYReconstructed
  /\ dataYResiduals' = st.dataYResiduals
  /\ reconCreates' = st.reconCreates
  /\ reconLoads' = st.reconLoads

\* The runs suspended at an await of the reconstructed client stay within
\* the model's bound.
ReconBounded(st) ==
  /\ Len(st.reconCreates) <= MaxReconCreates
  /\ Len(st.reconLoads) <= MaxReconLoads

\* dispatch({type: "SET_X_RANGE", range}) and the effects of its commit: the
\* load effect and the reconstructed-load effect.
SetXRange(range) ==
  /\ xRange' = range
  /\ \E st \in {RunEffects(FullState, client, range, numChannelsState,
                          reconstructedInfo, comparisonMode, TRUE, FALSE, TRUE)} :
        /\ ReconBounded(st)
        /\ CommitView(st)
        /\ CommitCompare(st)
  /\ UNCHANGED <<reconstructedInfo, reconstructedDataset, comparisonMode>>

\* useTimeseriesDataClient: create() has resolved and setClient runs.  The
\* load effect runs for the window and channel of that render; the "client
\* is initialized" effect sets numChannels, selectedChannel and xRange; the
\* load effect runs again for the commit of these, and with it the
\* reconstructed-load effect and, when the channel changed, the
\* reconstructed-client effect.
SetClient ==
  /\ ~client
  /\ dtype # "null"
  /\ client' = TRUE
  /\ LET channels == numChannels
         channel == IF channels > 1 /\ channels <= 20 THEN AllChannels ELSE 0
         range == [min |-> R(0), max |-> R(Min(InitialMax, shape - 1))]
     IN \E first \in {LoadEffect(ViewState, xRange, selectedChannel,
                                  numChannelsState) @@ FullState} :
        \E st \in {RunEffects([first EXCEPT !.selectedChannel = channel],
                               TRUE, range, channels, reconstructedInfo,
                               comparisonMode, TRUE, channel # selectedChannel,
                               TRUE)} :
          /\ numChannelsState' = channels
          /\ selectedChannel' = st.selectedChannel
          /\ xRange' = range
          /\ ReconBounded(st)
          /\ CommitView(st)
          /\ CommitCompare(st)
  /\ rangeOps' = 0
  /\ creates' = <<>>
  /\ clientOf' = dataset
  /\ UNCHANGED <<dataset, clientError>>
  /\ UNCHANGED <<info, shape, numChannels, dtype, chunkSize, cache>>
  /\ UNCHANGED <<selectedIndex, isDragging, lastDragX, workerVars, canvasVars,
                 tabVars, tickVars>>
  /\ UNCHANGED <<reconstructedInfo, reconstructedDataset, comparisonMode>>

\* The network answers a request of the viewer's client: the chunk fetch
\* ends, and the loads it releases resume; when they set a new dataY the
\* reconstructed-load effect runs.
ViewRespond(req, resp) ==
  /\ req \in network
  /\ cache' = storeChunk(cache, req.chunk, TypedArray(resp.body, dtype),
                         GoodResponse(resp))
  /\ \E cl \in {respond(ClientState, req, resp)} :
       \E after \in {ResumeLoads(view, ResumeOrder(loads), cl.settled)} :
         \E st \in {RunEffects(
                       (cl @@ [view |-> after,
                               loads |-> SuspendedLoads(view, loads, cl.settled)])
                         @@ FullState,
                       TRUE, xRange, numChannelsState, reconstructedInfo,
                       comparisonMode, FALSE, FALSE,
                       DataYChanged(view, after, loads, cl.settled))} :
           /\ ReconBounded(st)
           /\ CommitView(st)
           /\ CommitCompare(st)
  /\ UNCHANGED <<info, shape, numChannels, dtype, chunkSize>>
  /\ UNCHANGED <<xRange, selectedIndex, isDragging, lastDragX, selectedChannel,
                 numChannelsState, client, rangeOps, workerVars,
                 canvasVars, hookVars, tabVars, tickVars>>
  /\ UNCHANGED <<reconstructedInfo, reconstructedDataset, comparisonMode>>

----------------------------------------------------------------------------
(* TimeseriesView: pointer, zoom and navigation handlers *)

MarginLeft == 50
MarginRight == 20
NavPadding == 10

\* width - margins.left - margins.right
DrawWidth == Width - MarginLeft - MarginRight

\* A reducer action that starts no load leaves the client and the data held
\* alone.
NoLoad ==
  UNCHANGED <<clientVars, view, loads, workerVars, compareVars, canvasVars, hookVars, tabVars, tickVars>>

ClientFixed ==
  UNCHANGED <<info, shape, numChannels, dtype, chunkSize, cache, workerVars,
              canvasVars, hookVars, tabVars, tickVars>>

\* A handler that dispatches SET_X_RANGE: a pan, a zoom or a bar click.
RangeOp(range) ==
  /\ rangeOps < MaxRangeOps
  /\ Len(loads) < MaxPending
  /\ rangeOps' = rangeOps + 1
  /\ SetXRange(range)
  /\ ClientFixed

\* handleMouseDown, a listener of the container
MouseDown(x) ==
  /\ Rendered /\ client
  /\ isDragging' = TRUE
  /\ lastDragX' = x
  /\ NoLoad
  /\ UNCHANGED <<xRange, selectedIndex, selectedChannel, numChannelsState,
                 client, rangeOps>>

\* The bounds test of handleMouseMove on the translated range.
inBoundsAlways(newMin, newMax) == TRUE

inBounds(newMin, newMax) ==
  /\ ~RLt(newMin, R(0))
  /\ ~RLt(R(shape - 1), newMax)

\* An event whose handler returns at once.
Ignored == UNCHANGED vars

\* handleMouseMove, a listener of the window
MouseMove(x) ==
  /\ Rendered /\ client
  /\ IF ~isDragging \/ lastDragX = 0
       THEN Ignored
     ELSE
       LET deltaX == x - lastDragX
           xRatio == Norm(deltaX, DrawWidth)
           dataDelta == RMul(RSub(xRange.max, xRange.min), xRatio)
           newMin == RSub(xRange.min, dataDelta)
           newMax == RSub(xRange.max, dataDelta)
       IN IF ~inBounds(newMin, newMax)
            THEN Ignored
          ELSE /\ RangeOp([min |-> newMin, max |-> newMax])
               /\ lastDragX' = x
               /\ UNCHANGED <<selectedIndex, isDragging, selectedChannel,
                              numChannelsState, client>>

\* handleMouseUp, a listener of the window
MouseUp ==
  /\ Rendered /\ client
  /\ isDragging' = FALSE
  /\ lastDragX' = 0
  /\ NoLoad
  /\ UNCHANGED <<xRange, selectedIndex, selectedChannel, numChannelsState,
                 client, rangeOps>>

\* The index handleCanvasClick computes for a click at pixel x of the canvas.
clickIndex(x) ==
  LET xRatio == Norm(x - MarginLeft, DrawWidth)
  IN Round(RAdd(xRange.min, RMul(xRatio, RSub(xRange.max, xRange.min))))

\* handleCanvasClick
CanvasClick(x) ==
  /\ Rendered
  /\ IF (~view.dataY.set /\ ~view.dataYAll.set) \/ isDragging
       THEN UNCHANGED selectedIndex
     ELSE IF clickIndex(x) >= 0
       THEN selectedIndex' = clickIndex(x)
     ELSE UNCHANGED selectedIndex
  /\ NoLoad
  /\ UNCHANGED <<xRange, isDragging, lastDragX, selectedChannel,
                 numChannelsState, client, rangeOps>>

\* The centre of a zoom: the selected index, or the middle of the window.
zoomCenterMiddle == RDiv(RAdd(xRange.min, xRange.max), R(2))

zoomCenter ==
  IF selectedIndex # -1 THEN R(selectedIndex)
  ELSE RDiv(RAdd(xRange.min, xRange.max), R(2))

\* The window a zoom dispatches: newRange around the centre, clamped.
zoomRange(center, newRange) ==
  [min |-> RMax(R(0), RSub(center, RDiv(newRange, R(2)))),
   max |-> RMin(R(shape - 1), RAdd(center, RDiv(newRange, R(2))))]

Zoom(range) ==
  /\ Rendered /\ client
  /\ RangeOp(range)
  /\ UNCHANGED <<selectedIndex, isDragging, lastDragX, selectedChannel,
                 numChannelsState, client>>

\* handleZoomIn: currentRange / 1.5
ZoomIn ==
  Zoom(zoomRange(zoomCenter, RDiv(RSub(xRange.max, xRange.min), <<3, 2>>)))

\* handleZoomOut: currentRange * 1.5
ZoomOut ==
  Zoom(zoomRange(zoomCenter, RMul(RSub(xRange.max, xRange.min), <<3, 2>>)))

\* handleZoomReset
ZoomReset ==
  /\ Rendered /\ client
  /\ Len(loads) < MaxPending
  /\ rangeOps' = 0
  /\ SetXRange([min |-> R(0), max |-> R(Min(InitialMax, shape - 1))])
  /\ ClientFixed
  /\ UNCHANGED <<selectedIndex, isDragging, lastDragX, selectedChannel,
                 numChannelsState, client>>

\* The totalRange prop of the navigation bar.
totalRange ==
  [min |-> R(0), max |-> IF client THEN R(shape - 1) ELSE R(InitialMax)]

\* TimeseriesNavigationBar.handleClick at pixel clickX of the bar: the view
\* centred on the click, moved back inside the total range.
navRangeCentred(clickX) ==
  LET ratio == Norm(clickX - NavPadding, Width - 2 * NavPadding)
      clickedValue == RAdd(totalRange.min,
                           RMul(ratio, RSub(totalRange.max, totalRange.min)))
      halfSize == RDiv(RSub(xRange.max, xRange.min), R(2))
  IN [min |-> RSub(clickedValue, halfSize), max |-> RAdd(clickedValue, halfSize)]

navRange(clickX) ==
  LET barWidth == Width - 2 * NavPadding
      ratio == Norm(clickX - NavPadding, barWidth)
      clickedValue == RAdd(totalRange.min,
                           RMul(ratio, RSub(totalRange.max, totalRange.min)))
      currentSize == RSub(xRange.max, xRange.min)
      halfSize == RDiv(currentSize, R(2))
      min0 == RSub(clickedValue, halfSize)
      max0 == RAdd(clickedValue, halfSize)
      min1 == IF RLt(min0, totalRange.min) THEN totalRange.min ELSE min0
      max1 == IF RLt(min0, totalRange.min) THEN RAdd(min1, currentSize) ELSE max0
      max2 == IF RLt(totalRange.max, max1) THEN totalRange.max ELSE max1
      min2 == IF RLt(totalRange.max, max1) THEN RSub(max2, currentSize) ELSE min1
  IN [min |-> min2, max |-> max2]

NavClick(clickX) ==
  /\ Rendered
  /\ RangeOp(navRange(clickX))
  /\ UNCHANGED <<selectedIndex, isDragging, lastDragX, selectedChannel,
                 numChannelsState, client>>

\* onChange of the channel select, shown when numChannels > 1: the load
\* effect, the reconstructed-client effect and the reconstructed-load effect
\* run for the new channel.
SelectChannel(value) ==
  /\ Rendered
  /\ numChannelsState > 1
  /\ value # selectedChannel
  /\ Len(loads) < MaxPending
  /\ \E st \in {RunEffects([FullState EXCEPT !.selectedChannel = value], client,
                          xRange, numChannelsState, reconstructedInfo,
                          comparisonMode, TRUE, TRUE, TRUE)} :
        /\ selectedChannel' = st.selectedChannel
        /\ ReconBounded(st)
        /\ CommitView(st)
        /\ CommitCompare(st)
  /\ UNCHANGED <<reconstructedInfo, reconstructedDataset, comparisonMode>>
  /\ ClientFixed
  /\ UNCHANGED <<xRange, selectedIndex, isDragging, lastDragX,
                 numChannelsState, client, rangeOps>>

----------------------------------------------------------------------------
(* DatasetContent and the comparison actions of TimeseriesView *)

Modes == {"original", "overlay", "residuals", "side-by-side"}

\* if (info === null) setComparisonMode("original"), of onSelectAlgorithm.
modeAfterSelectKept(rinfo, mode) == mode

modeAfterSelect(rinfo, mode) == IF rinfo = "null" THEN "original" ELSE mode

\* onSelectAlgorithm of DatasetContent, called by the lossy-algorithm select
\* with null ("Original data only") or the info of an algorithm: it sets
\* reconstructedInfo, and the mode back to "original" for null.  TimeseriesView
\* then runs the reconstructed-client effect, and the reconstructed-load
\* effect when the mode changed.
SelectAlgorithm(rinfo) ==
  /\ rinfo # reconstructedInfo
  /\ reconstructedInfo' = rinfo
  /\ reconstructedDataset' = IF rinfo = "null" THEN 0 ELSE dataset
  /\ comparisonMode' = modeAfterSelect(rinfo, comparisonMode)
  /\ \E st \in {RunEffects(FullState, client, xRange, numChannelsState, rinfo,
                          comparisonMode', FALSE, TRUE,
                          comparisonMode' # comparisonMode)} :
        /\ selectedChannel' = st.selectedChannel
        /\ ReconBounded(st)
        /\ Len(st.loads) <= MaxPending
        /\ CommitView(st)
        /\ CommitCompare(st)
  /\ ClientFixed
  /\ UNCHANGED <<xRange, selectedIndex, isDragging, lastDragX,
                 numChannelsState, client, rangeOps>>

\* onModeChange of the ComparisonModeSelector, which DatasetContent renders
\* while reconstructedInfo is not null: setComparisonMode, and the
\* reconstructed-load effect.
ChangeMode(mode) ==
  /\ reconstructedInfo # "null"
  /\ mode # comparisonMode
  /\ comparisonMode' = mode
  /\ \E st \in {RunEffects(FullState, client, xRange, numChannelsState,
                          reconstructedInfo, mode, FALSE, FALSE, TRUE)} :
        /\ ReconBounded(st)
        /\ CommitView(st)
        /\ CommitCompare(st)
  /\ ClientFixed
  /\ UNCHANGED <<xRange, selectedIndex, isDragging, lastDragX, selectedChannel,
                 numChannelsState, client, rangeOps, reconstructedInfo,
                 reconstructedDataset>>

\* TimeseriesDataClient.create of initClient settles: setReconstructedClient
\* and the reconstructed-load effect, or the catch block's
\* setError("Failed to load reconstructed data").  The metadata document is
\* the one the dataset's own client has read.
ReconCreated(i, ok) ==
  /\ i \in DOMAIN reconCreates
  /\ ok => dtype # "null"
  /\ \E left \in {[FullState EXCEPT !.reconCreates = RemoveAt(@, i)]} :
       \E st \in {IF ok
                     THEN RunEffects([left EXCEPT !.reconstructedClient =
                                                    reconCreates[i]],
                                     client, xRange, numChannelsState,
                                     reconstructedInfo, comparisonMode,
                                     FALSE, FALSE, TRUE)
                     ELSE [left EXCEPT !.view.error =
                                         "Failed to load reconstructed data"]} :
         /\ ReconBounded(st)
         /\ CommitView(st)
         /\ CommitCompare(st)
  /\ ClientFixed
  /\ UNCHANGED <<xRange, selectedIndex, isDragging, lastDragX, selectedChannel,
                 numChannelsState, client, rangeOps, reconstructedInfo,
                 reconstructedDataset,
                 comparisonMode>>

\* The ways the chunk requests of one fetchRange of a reconstructed client
\* are answered: every satisfiable range served and the others refused,
\* the same with the others answered by the whole blob, or the network
\* failing.
Answers == {"served", "whole", "failed"}

\* What fetchRange of the reconstructed client gives loadReconstructedData
\* under such answers: the client is of the same class, chunk size and
\* metadata as the dataset's.
ReconFetched(load, how) ==
  LET chunkIndices == getChunkIndices(load.start, load.end)
      response(k) ==
        LET req == ChunkRequest(k)
            all == ReconServerResponses(req.first, req.last)
        IN IF how = "failed" THEN NetworkError
           ELSE IF how = "served" THEN CHOOSE r \in all : r.status # 200
           ELSE CHOOSE r \in all : r.status # 416
      call == [tag |-> 0, start |-> load.start, end |-> load.end,
               channel |-> load.channel, chunkIndices |-> chunkIndices,
               waiting |-> {},
               got |-> [k \in SeqRange(chunkIndices) |->
                          TypedArray(response(k).body, dtype)],
               issued |-> SeqRange(chunkIndices), repeat |-> FALSE,
               status |-> "pending", result |-> <<>>, error |-> ""]
  IN IF \A k \in SeqRange(chunkIndices) : GoodResponse(response(k))
       THEN Resolve(call)
       ELSE Reject(call, "Failed to fetch")

\* loadReconstructedData after its await: setDataYReconstructed, and
\* setDataYResiduals when the dataY it holds has the length of the
\* reconstructed series; a rejection is only logged.
ReconLoaded(st, load, fetched) ==
  IF fetched.status # "resolved" THEN st
  ELSE [st EXCEPT
          !.dataYReconstructed = Some(fetched.result),
          !.dataYResiduals =
            IF load.dataY.set /\ Len(fetched.result) = Len(load.dataY.v)
              THEN Some(computeResiduals(load.dataY.v, fetched.result))
              ELSE @]

\* The fetchRange of a suspended loadReconstructedData settles.
ReconAnswer(i, how) ==
  /\ i \in DOMAIN reconLoads
  /\ \E fetched \in {ReconFetched(reconLoads[i], how)} :
       \E st \in {ReconLoaded([FullState EXCEPT !.reconLoads = RemoveAt(@, i)],
                               reconLoads[i], fetched)} :
         /\ CommitView(st)
         /\ CommitCompare(st)
  /\ ClientFixed
  /\ UNCHANGED <<xRange, selectedIndex, isDragging, lastDragX, selectedChannel,
                 numChannelsState, client, rangeOps, reconstructedInfo,
                 reconstructedDataset,
                 comparisonMode>>

----------------------------------------------------------------------------
(* The drawing worker: self.onmessage and the render throttle *)

ThrottleMs == 100
RecheckMs == 150

\* Any elapsed time beyond the interval: the throttle only tests elapsed > 100.
Saturated == ThrottleMs + 1

\* lastRenderTime starts at 0, ages before the worker's first Date.now().
WorkerInit ==
  /\ ctx = "none"
  /\ renderStack = <<>>
  /\ sinceLastRender = Saturated
  /\ timers = <<>>
  /\ received = 0
  /\ executed = <<>>
  /\ painted = {}
  /\ messages = <<>>
  /\ frames = EmptyMap
  /\ acks = <<>>
  /\ sinceFirst = Saturated
  /\ burstFirst = 0
  /\ burstIdle = FALSE

\* Infinity, -Infinity and NaN beside the finite numbers.
Num(n) == [inf |-> 0, v |-> n]
Infinity == [inf |-> 1, v |-> 0]
NegInfinity == [inf |-> -1, v |-> 0]
NaN == [inf |-> 2, v |-> 0]

\* a < b on numbers that are not NaN
Less(a, b) == a.inf < b.inf \/ (a.inf = 0 /\ b.inf = 0 /\ a.v < b.v)

Least(nums) == CHOOSE m \in nums : \A x \in nums : ~Less(x, m)
Greatest(nums) == CHOOSE m \in nums : \A x \in nums : ~Less(m, x)

computeMin(data) == Least({Num(x) : x \in SeqRange(data)} \cup {Infinity})
computeMax(data) == Greatest({Num(x) : x \in SeqRange(data)} \cup {NegInfinity})

\* The yRange memo of TimeseriesView.
yRange(v, reconstructed, residuals, mode) ==
  IF v.dataYAll.set
    THEN [min |-> Least({computeMin(ch) : ch \in SeqRange(v.dataYAll.v)}
                        \cup {Infinity}),
          max |-> Greatest({computeMax(ch) : ch \in SeqRange(v.dataYAll.v)}
                           \cup {NegInfinity})]
  ELSE IF v.dataY.set
    THEN IF mode \in {"overlay", "side-by-side"} /\ reconstructed.set
           THEN [min |-> Least({computeMin(v.dataY.v),
                                computeMin(reconstructed.v)}),
                 max |-> Greatest({computeMax(v.dataY.v),
                                   computeMax(reconstructed.v)})]
         ELSE IF mode = "residuals" /\ residuals.set
           THEN [min |-> computeMin(residuals.v),
                 max |-> computeMax(residuals.v)]
         ELSE [min |-> computeMin(v.dataY.v), max |-> computeMax(v.dataY.v)]
  ELSE [min |-> Num(0), max |-> Num(1)]

\* The message the render effect of TimeseriesView builds; width, height and
\* margins are the same in every message.
renderMessage(v, reconstructed, residuals, mode, range) ==
  [timeseriesT |-> v.dataT.v,
   timeseriesY |-> IF v.dataY.set THEN v.dataY.v ELSE <<>>,
   timeseriesYAll |-> v.dataYAll,
   timeseriesYReconstructed |-> reconstructed,
   timeseriesYResiduals |-> residuals,
   comparisonMode |-> mode,
   xRange |-> range,
   yRange |-> yRange(v, reconstructed, residuals, mode)]

\* The stroke colours of renderTimeseries, by index.
Colors == 8

\* One stroked path: a point per timepoint, in data coordinates; the path is
\* mapped to pixels by the xRange and the yRange of the frame.
Polyline(color, timeseriesT, series) ==
  [strokeStyle |-> color,
   points |-> [i \in DOMAIN timeseriesT |->
                 <<timeseriesT[i],
                   IF i \in DOMAIN series THEN Num(series[i]) ELSE NaN>>]]

\* renderTimeseries with a context: every channel of timeseriesYAll when it
\* has any, else timeseriesY; it is given no other series of the message.
renderTimeseries(msg) ==
  [xRange |-> msg.xRange,
   yRange |-> msg.yRange,
   paths |-> IF msg.timeseriesYAll.set /\ Len(msg.timeseriesYAll.v) > 0
               THEN [c \in DOMAIN msg.timeseriesYAll.v |->
                       Polyline((c - 1) % Colors, msg.timeseriesT,
                                msg.timeseriesYAll.v[c])]
               ELSE <<Polyline(0, msg.timeseriesT, msg.timeseriesY)>>]

\* renderStack[renderStack.length - 1]
stackBottom(stack) == stack[1]

stackTop(stack) == stack[Len(stack)]

\* setTimeout(checkRender, 150)
recheckNever(pending) == pending

recheck(pending) == Append(pending, RecheckMs)

\* The callback of a render request: renderTimeseries on the fields it takes
\* from the message it closed over, which paints unless there is no context,
\* then postMessage({type: "render_complete"}).
RenderCallback(request) ==
  /\ executed' = Append(executed, request)
  /\ painted' = IF ctx = "2d" THEN painted \cup {request} ELSE painted
  /\ frames' = IF ctx = "2d"
                THEN [n \in DOMAIN frames \cup {request} |->
                        IF n = request THEN renderTimeseries(messages'[request])
                                       ELSE frames[n]]
                ELSE frames
  /\ acks' = Append(acks, request)

\* The throttle test of checkRender: elapsed > 100.
throttlePassedAtInterval(elapsed) == elapsed >= ThrottleMs

throttlePassed(elapsed) == elapsed > ThrottleMs

\* checkRender, with the timers that remain when it runs.
checkRender(stack, pending) ==
  IF stack = <<>>
    THEN /\ timers' = pending
         /\ renderStack' = stack
         /\ UNCHANGED <<sinceLastRender, executed, painted, frames, acks>>
  ELSE IF throttlePassed(sinceLastRender)
    THEN /\ sinceLastRender' = 0
         /\ RenderCallback(stackTop(stack))
         /\ renderStack' = <<>>
         /\ timers' = pending
  ELSE /\ timers' = recheck(pending)
       /\ renderStack' = stack
       /\ UNCHANGED <<sinceLastRender, executed, painted, frames, acks>>

\* self.onmessage with an "initialize" message: getContext("2d") gives the
\* context or null.
ReceiveInitialize(context) ==
  /\ ctx = "none"
  /\ ctx' = context
  /\ UNCHANGED <<renderStack, sinceLastRender, timers, received, executed,
                 painted, messages, frames, acks, sinceFirst, burstFirst,
                 burstIdle>>
  /\ UNCHANGED <<clientVars, viewVars, compareVars, canvasVars, hookVars, tabVars, tickVars>>

\* self.onmessage with a "render" message: throttleRender(callback).
ReceiveRender(msg) ==
  /\ received < MaxRequests
  /\ received' = received + 1
  /\ messages' = Append(messages, msg)
  /\ IF sinceFirst > ThrottleMs
       THEN \* more than an interval after the first of the latest burst
            /\ sinceFirst' = 0
            /\ burstFirst' = received + 1
            /\ burstIdle' = (sinceLastRender > ThrottleMs)
       ELSE UNCHANGED <<sinceFirst, burstFirst, burstIdle>>
  /\ checkRender(Append(renderStack, received + 1), timers)
  /\ UNCHANGED ctx
  /\ UNCHANGED <<clientVars, viewVars, compareVars, canvasVars, hookVars, tabVars, tickVars>>

\* A timer that is due runs checkRender.
FireTimer ==
  /\ timers # <<>>
  /\ Head(timers) = 0
  /\ UNCHANGED messages
  /\ checkRender(renderStack, Tail(timers))
  /\ UNCHANGED <<ctx, received, sinceFirst, burstFirst, burstIdle>>
  /\ UNCHANGED <<clientVars, viewVars, compareVars, canvasVars, hookVars, tabVars, tickVars>>

\* The worker's clock advances by one step between two of its tasks.
Tick ==
  /\ sinceLastRender' = Min(sinceLastRender + TickMs, Saturated)
  /\ sinceFirst' = Min(sinceFirst + TickMs, Saturated)
  /\ timers' = [i \in DOMAIN timers |-> Max(0, timers[i] - TickMs)]
  /\ UNCHANGED <<ctx, renderStack, received, executed, painted, messages,
                 frames, acks, burstFirst, burstIdle>>
  /\ UNCHANGED <<clientVars, viewVars, compareVars, canvasVars, hookVars, tabVars, tickVars>>

----------------------------------------------------------------------------
(* The client driven by arbitrary callers *)

\* The datasets served: the shape a multiple of the chunk size or not, one
\* channel or several, elements of 1, 2 and 4 bytes; and two whose metadata
\* names a dtype that is none of the six.
Datasets ==
  {[shape |-> MaxShape, numChannels |-> 1, dtype |-> "int16"],
   [shape |-> MaxShape - 1, numChannels |-> MaxChannels, dtype |-> "uint8"],
   [shape |-> MaxShape - 1, numChannels |-> 1, dtype |-> "uint32"],
   [shape |-> MaxShape - 1, numChannels |-> 1, dtype |-> "float64"],
   [shape |-> MaxShape - 1, numChannels |-> 1, dtype |-> "toString"]}

ClientInit ==
  /\ shape = 0
  /\ numChannels = 1
  /\ dtype = "null"
  /\ chunkSize = MaxChunkSize
  /\ cache = EmptyMap
  /\ inProgressFetches = EmptyMap
  /\ network = {}
  /\ calls = {}
  /\ settled = {}
  /\ covered = {}

Init ==
  /\ info \in Datasets
  /\ ClientInit /\ ViewInit /\ WorkerInit /\ CompareInit /\ CanvasInit
  /\ HookInit /\ TabsInit /\ NoTickRun

\* The channels a caller may name: those of the dataset, and one on either
\* side of them.
Channels == -1..numChannels

\* Ranges with 0 <= start < end <= shape.  Before initialize the client holds
\* shape 0 and the call is made with the dataset's first timepoint.
CallRange ==
  \E start \in 0..Max(shape - 1, 0), end \in 1..Max(shape, 1),
     channel \in Channels :
    /\ start < end
    /\ FetchRange(start, end, channel)

CallAllChannels ==
  \E start \in 0..(shape - 1), end \in 1..shape :
    /\ start < end
    /\ FetchAllChannels(start, end)

Answer ==
  \E req \in network :
    \E resp \in ServerResponses(req.first, req.last) \cup {NetworkError} :
      Respond(req, resp)

Next == Initialize \/ CallRange \/ CallAllChannels \/ Answer

Spec == Init /\ [][Next]_vars

----------------------------------------------------------------------------
(* The viewer driven by its user and by the network *)

\* The datasets viewed: more than two chunks long, with one channel and
\* with several.
ViewerDatasets ==
  {[shape |-> 2 * MaxChunkSize + 1, numChannels |-> 1, dtype |-> "int16"],
   [shape |-> 2 * MaxChunkSize + 1, numChannels |-> MaxChannels, dtype |-> "uint8"]}

\* Pixel positions of the pointer: the edges of the viewer, of the bar and
\* of the drawing area, and the middle of the drawing area.
Pixels ==
  {0, MarginLeft + DrawWidth \div 2, Width - MarginRight, Width}

ViewerInit ==
  /\ info \in ViewerDatasets
  /\ ClientInit /\ ViewInit /\ WorkerInit /\ CompareInit /\ CanvasInit
  /\ HookInit /\ TabsInit /\ NoTickRun

PointerDown == \E x \in Pixels : MouseDown(x)
PointerMove == \E x \in Pixels : MouseMove(x)
PointerUp == MouseUp
Click == \E x \in Pixels : CanvasClick(x)
BarClick == \E x \in Pixels : NavClick(x)
ChooseChannel ==
  \E value \in {AllChannels} \cup (0..(numChannelsState - 1)) : SelectChannel(value)

ViewAnswer ==
  \E req \in network :
    \E resp \in ServerResponses(req.first, req.last) \cup {NetworkError} :
      ViewRespond(req, resp)

ViewerNext ==
  \/ Initialize
  \/ SetClient
  \/ PointerDown
  \/ PointerMove
  \/ PointerUp
  \/ Click
  \/ ZoomIn
  \/ ZoomOut
  \/ ZoomReset
  \/ BarClick
  \/ ChooseChannel
  \/ ViewAnswer

ViewerSpec == ViewerInit /\ [][ViewerNext]_vars

----------------------------------------------------------------------------
(* The dataset page with a lossy algorithm to compare with *)

\* The algorithms with a reconstruction of the dataset.
Algorithms == {"A"}

CompareInit0 ==
  /\ info \in {d \in ViewerDatasets : d.numChannels > 1}
  /\ ClientInit /\ ViewInit /\ WorkerInit /\ CompareInit /\ CanvasInit
  /\ HookInit /\ TabsInit /\ NoTickRun

ChooseAlgorithm == \E rinfo \in Algorithms \cup {"null"} : SelectAlgorithm(rinfo)

\* The modes of the ComparisonModeSelector.
ChooseMode == \E mode \in Modes : ChangeMode(mode)

\* A click at the right end of the navigation bar.
BarClickRight == NavClick(Width)

ReconClientAnswer ==
  \E i \in DOMAIN reconCreates, ok \in BOOLEAN : ReconCreated(i, ok)

ReconDataAnswer ==
  \E i \in DOMAIN reconLoads, how \in Answers : ReconAnswer(i, how)

CompareNext ==
  \/ Initialize
  \/ SetClient
  \/ ZoomOut
  \/ BarClickRight
  \/ ChooseChannel
  \/ ViewAnswer
  \/ ChooseAlgorithm
  \/ ChooseMode
  \/ ReconClientAnswer
  \/ ReconDataAnswer

CompareSpec == CompareInit0 /\ [][CompareNext]_vars

----------------------------------------------------------------------------
(* The residual computation on its own *)

\* Elements of a Uint32Array: small ones, and ones from 2^24 on, where not
\* every integer is a float32.
Samples == {0, 3, 255, 16777216, 16777217}

\* The series of 1..MaxSeries samples.
Series == UNION {[1..n -> Samples] : n \in 1..MaxSeries}

\* TimeseriesView in a comparison mode holds an original series, and a
\* loadReconstructedData run that captured it is suspended at its fetchRange.
ComparingInit(mode) ==
  /\ info = [shape |-> MaxSeries, numChannels |-> 1, dtype |-> "uint32"]
  /\ ClientInit /\ WorkerInit /\ CanvasInit /\ HookSettled
  /\ TabsInit /\ NoTickRun
  /\ xRange = [min |-> R(0), max |-> R(InitialMax)]
  /\ selectedIndex = -1
  /\ isDragging = FALSE
  /\ lastDragX = 0
  /\ selectedChannel = 0
  /\ numChannelsState = 1
  /\ \E dataY \in Series :
       /\ view = [dataT |-> Some([i \in 1..Len(dataY) |-> i - 1]),
                  dataY |-> Some(dataY), dataYAll |-> Null,
                  error |-> "null", isLoading |-> FALSE]
       /\ reconLoads = <<[client |-> [algorithm |-> "A"], start |-> 0,
                          end |-> Len(dataY), channel |-> 0,
                          dataY |-> Some(dataY)]>>
  /\ loads = <<>>
  /\ client = TRUE
  /\ rangeOps = 0
  /\ reconstructedInfo = "A"
  /\ reconstructedDataset = 1
  /\ comparisonMode = mode
  /\ reconstructedClient = [algorithm |-> "A"]
  /\ dataYReconstructed = Null
  /\ dataYResiduals = Null
  /\ reconCreates = <<>>

ResidualInit == ComparingInit("residuals")

\* The run resumes with the reconstructed series its fetchRange resolved to.
StoreResiduals(reconstructedData) ==
  /\ reconLoads # <<>>
  /\ \E st \in {ReconLoaded([FullState EXCEPT !.reconLoads = Tail(@)],
                             Head(reconLoads),
                             [status |-> "resolved",
                              result |-> reconstructedData])} :
       /\ CommitView(st)
       /\ CommitCompare(st)
  /\ ClientFixed
  /\ UNCHANGED <<xRange, selectedIndex, isDragging, lastDragX, selectedChannel,
                 numChannelsState, client, rangeOps, reconstructedInfo,
                 reconstructedDataset,
                 comparisonMode>>

ResidualNext == \E reconstructedData \in Series : StoreResiduals(reconstructedData)

ResidualSpec == ResidualInit /\ [][ResidualNext]_vars

----------------------------------------------------------------------------
(* The worker driven by its controller and by its clock *)

Contexts == {"2d", "null"}

WorkerStart ==
  /\ info \in {d \in ViewerDatasets : d.numChannels = 1}
  /\ ClientInit /\ ViewInit /\ WorkerInit /\ CompareInit /\ CanvasInit
  /\ HookInit /\ TabsInit /\ NoTickRun

InitializeMessage == \E context \in Contexts : ReceiveInitialize(context)

\* The messages of a controller that holds one series and no reconstruction.
WorkerMessages ==
  {renderMessage([dataT |-> Some(<<0, 1>>), dataY |-> Some(<<3, 255>>),
                  dataYAll |-> Null, error |-> "null", isLoading |-> FALSE],
                 Null, Null, "original", xRange)}

RenderMessage == \E msg \in WorkerMessages : ReceiveRender(msg)

WorkerNext == InitializeMessage \/ RenderMessage \/ FireTimer \/ Tick

WorkerSpec == WorkerStart /\ [][WorkerNext]_vars

\* Timers fire once they are due, and time passes.
WorkerFairSpec == WorkerSpec /\ WF_vars(FireTimer) /\ WF_vars(Tick)

----------------------------------------------------------------------------
(* The worker driven by a controller that compares with a reconstruction *)

\* The series the controller holds, and those its reconstruction resolves to.
RenderSeries == {<<3, 255>>, <<16777216, 0>>}

RenderInit ==
  \E mode \in {"residuals", "overlay"} :
    ComparingInit(mode) /\ view.dataY.v \in RenderSeries

\* The render effect of TimeseriesView: it runs when one of the values of the
\* message changed, the width and the height among them, and posts to the
\* worker that setWorker stored, which was sent initialize before.
PostRender ==
  /\ ctx # "none"
  /\ view.dataT.set
  /\ view.dataY.set \/ view.dataYAll.set
  /\ ReceiveRender(renderMessage(view, dataYReconstructed, dataYResiduals,
                                 comparisonMode, xRange))

StoreReconstruction ==
  \E reconstructedData \in RenderSeries \cup {<<0>>} :
    StoreResiduals(reconstructedData)

RenderNext ==
  InitializeMessage \/ StoreReconstruction \/ PostRender \/ FireTimer \/ Tick

RenderSpec == RenderInit /\ [][RenderNext]_vars

----------------------------------------------------------------------------
(* TimeseriesView: the canvas, the worker effect and the render effect *)

\* The worker effect's cleanup, when its previous run returned one:
\* worker.terminate().
runCleanup(ws) ==
  IF cleanup = 0 THEN ws ELSE [ws EXCEPT ![cleanup].terminated = TRUE]

\* new Worker(...), with the messages posted to it so far.
NewWorker(log) == [log |-> log, terminated |-> FALSE]

\* The ref callback of the canvas gives null when the canvas unmounts and a
\* new element when it mounts (a canvas whose key changed does both in one
\* commit); the worker effect then runs its cleanup and its body, in which
\* transferControlToOffscreen succeeds (ok) or throws.
SetCanvasElement(el, ok) ==
  /\ el # canvasElement
  /\ el = 0 \/ (el = Len(workers) + 1 /\ el <= MaxCanvases)
  /\ el = 0 => ok
  /\ canvasElement' = el
  /\ IF el = 0
       THEN /\ workers' = runCleanup(workers)
            /\ cleanup' = 0
            /\ UNCHANGED worker
     ELSE IF ok
       THEN /\ workers' = Append(runCleanup(workers), NewWorker(<<"initialize">>))
            /\ worker' = el
            /\ cleanup' = el
     ELSE /\ workers' = Append(runCleanup(workers), NewWorker(<<>>))
          /\ cleanup' = 0
          /\ UNCHANGED worker
  /\ UNCHANGED <<clientVars, viewVars, workerVars, compareVars, hookVars, tabVars, tickVars>>

\* The render messages posted so far, to any worker.
RECURSIVE RendersSent(_, _)
RendersSent(ws, i) ==
  IF i = 0 THEN 0
  ELSE RendersSent(ws, i - 1)
         + Len(SelectSeq(ws[i].log, LAMBDA m : m = "render"))

\* The render effect: worker.postMessage(msg) to the worker in state.
SendRender ==
  /\ worker # 0
  /\ view.dataT.set
  /\ view.dataY.set \/ view.dataYAll.set
  /\ RendersSent(workers, Len(workers)) < MaxRequests
  /\ workers' = [workers EXCEPT ![worker].log = Append(@, "render")]
  /\ UNCHANGED <<canvasElement, worker, cleanup>>
  /\ UNCHANGED <<clientVars, viewVars, workerVars, compareVars, hookVars, tabVars, tickVars>>

----------------------------------------------------------------------------
(* The canvas mounting and unmounting under a view that holds a series *)

CanvasChange ==
  \E el \in 0..MaxCanvases, ok \in BOOLEAN : SetCanvasElement(el, ok)

ControllerNext == CanvasChange \/ SendRender

ControllerSpec == RenderInit /\ [][ControllerNext]_vars

----------------------------------------------------------------------------
(* The zoom buttons on a dataset of the size the first window is made for *)

\* The chunkSize TimeseriesDataClient.create is called with.
DefaultChunkSize == 1000

\* Windows of the viewer: the first one, and ones that pans, zooms and bar
\* clicks lead to.
ZoomWindows ==
  {<<0, 999>>, <<0, 499>>, <<250, 750>>, <<500, 1499>>, <<1000, 1001>>,
   <<0, 10>>, <<700, 1400>>, <<1489, 1499>>}

\* No selection, or a selected timepoint.
ZoomSelections == {-1, 0, 500, ZoomShape - 1}

\* An initialised client that has every chunk in its cache, and a viewer
\* that shows the series of its window.
ZoomInit ==
  /\ info = [shape |-> ZoomShape, numChannels |-> 1, dtype |-> "uint8"]
  /\ shape = info.shape
  /\ numChannels = 1
  /\ dtype = "uint8"
  /\ chunkSize = DefaultChunkSize
  /\ cache = [k \in 0..((shape - 1) \div chunkSize) |->
                TypedArray(BlobBytes(k * chunkSize,
                                     Min((k + 1) * chunkSize, shape) - 1),
                           "uint8")]
  /\ inProgressFetches = EmptyMap
  /\ network = {}
  /\ calls = {}
  /\ settled = {}
  /\ covered = DOMAIN cache
  /\ \E w \in ZoomWindows :
       /\ xRange = [min |-> R(w[1]), max |-> R(w[2])]
       /\ view = [dataT |-> Some([i \in 1..(w[2] + 1 - w[1]) |-> w[1] + i - 1]),
                  dataY |-> Some([i \in 1..(w[2] + 1 - w[1]) |->
                                   SourceElement(w[1] + i - 1)]),
                  dataYAll |-> Null, error |-> "null", isLoading |-> FALSE]
  /\ selectedIndex \in ZoomSelections
  /\ isDragging = FALSE
  /\ lastDragX = 0
  /\ selectedChannel = 0
  /\ numChannelsState = 1
  /\ loads = <<>>
  /\ client = TRUE
  /\ rangeOps = 0
  /\ WorkerInit /\ CompareInit /\ CanvasInit /\ HookSettled
  /\ TabsInit /\ NoTickRun

ZoomNext == ZoomIn \/ ZoomOut

ZoomSpec == ZoomInit /\ [][ZoomNext]_vars

----------------------------------------------------------------------------
(* Dragging the window of that dataset *)

PanNext == PointerDown \/ PointerMove \/ PointerUp

PanSpec == ZoomInit /\ [][PanNext]_vars

----------------------------------------------------------------------------
(* Clicking the navigation bar of that dataset *)

BarSpec == ZoomInit /\ [][BarClick]_vars

----------------------------------------------------------------------------
(* One drag gesture, in the order the browser delivers its events *)

\* The button goes down on the viewer; no move has been accepted so far.
DragStart == ~isDragging /\ rangeOps = 0 /\ PointerDown

\* The pointer moves with the button held.
DragOver == isDragging /\ PointerMove

\* The button is released after a move that was accepted.
DragEnd == isDragging /\ rangeOps >= 1 /\ PointerUp

\* The click event that follows the release of the button on the viewer.
DragClick == ~isDragging /\ rangeOps >= 1 /\ Click

DragNext == DragStart \/ DragOver \/ DragEnd \/ DragClick

DragSpec == ZoomInit /\ [][DragNext]_vars

----------------------------------------------------------------------------
(* useTimeseriesDataClient under a dataset prop that changes *)

MaxDatasets == 3
MaxCreates == 3

\* TimeseriesView is rendered with another dataset (DatasetContent renders
\* it without a key, so it stays mounted): the urls in the effect's
\* dependencies differ, the effect runs, and initClient calls create for the
\* new dataset.  The effect returns no cleanup: the runs suspended at an
\* earlier create go on.
SelectDataset(d) ==
  /\ d # dataset
  /\ Len(creates) < MaxCreates
  /\ dataset' = d
  /\ creates' = Append(creates, d)
  /\ UNCHANGED <<clientOf, clientError>>
  /\ UNCHANGED <<clientVars, viewVars, workerVars, compareVars, canvasVars,
                 tabVars, tickVars>>

\* The i-th suspended initClient resumes: create resolved with a client for
\* the dataset it was called with (setClient, setError(null)), or it threw
\* (setError, setClient(null)).
ResolveCreate(i, ok) ==
  /\ i \in DOMAIN creates
  /\ creates' = RemoveAt(creates, i)
  /\ IF ok
       THEN clientOf' = creates[i] /\ clientError' = "null"
       ELSE clientOf' = 0 /\ clientError' = "Failed to fetch dataset info"
  /\ UNCHANGED dataset
  /\ UNCHANGED <<clientVars, viewVars, workerVars, compareVars, canvasVars,
                 tabVars, tickVars>>

DatasetChange == \E d \in 1..MaxDatasets : SelectDataset(d)

CreateSettles == \E i \in 1..MaxCreates, ok \in BOOLEAN : ResolveCreate(i, ok)

HookNext == DatasetChange \/ CreateSettles

HookSpec == Init /\ [][HookNext]_vars

----------------------------------------------------------------------------
(* The dataset page: DatasetContent under a dataset prop that changes *)

\* BenchmarkView renders DatasetContent without a key for whatever dataset
\* the route names, so its reconstructedInfo and comparisonMode stay when
\* another dataset is displayed; the select offers the lossy results of the
\* dataset displayed.
PageNext == DatasetChange \/ CreateSettles \/ ChooseAlgorithm \/ ChooseMode

PageSpec == CompareInit0 /\ [][PageNext]_vars

----------------------------------------------------------------------------
(* The axis ticks of the drawing worker: getTickPositions *)

\* The axis values are integers held in doubles.  Such a value is the pair
\* <<hi, lo>> for hi * Limb + lo with lo in 0..Limb-1, so that values around
\* 2^53, where the doubles stop holding every integer, stay within reach;
\* the ranges of the model are of magnitude below 2^54.
Limb == Pow(2, 27)

Big(n) == <<n \div Limb, n % Limb>>

BAdd(a, n) == <<a[1] + (a[2] + n) \div Limb, (a[2] + n) % Limb>>

BNeg(a) == <<(-a[1]) + (-a[2]) \div Limb, (-a[2]) % Limb>>

BLt(a, b) == a[1] < b[1] \/ (a[1] = b[1] /\ a[2] < b[2])

BLe(a, b) == a = b \/ BLt(a, b)

BAbs(a) == IF a[1] < 0 THEN BNeg(a) ELSE a

\* a - b for values less than 2^30 apart: the difference is a double.
BDiff(a, b) == (a[1] - b[1]) * Limb + (a[2] - b[2])

BBitLength(m) ==
  IF m[1] > 0 THEN 27 + BitLength(m[1]) ELSE BitLength(m[2])

\* The double nearest to an integer of magnitude below 2^54: the integer
\* itself below 2^53, and from there on the nearest even integer, a tie
\* going to the multiple of four (the even mantissa).
RoundToDouble(a) ==
  LET m == BAbs(a)
      r == IF m[1] < Pow(2, 26) \/ m[2] % 2 = 0 THEN m
           ELSE IF m[2] % 4 = 1 THEN BAdd(m, -1) ELSE BAdd(m, 1)
  IN IF a[1] < 0 THEN BNeg(r) ELSE r

\* 10^k, and Math.abs(num).toString().length for an integer below 10^21.
RECURSIVE BPow10(_)
BPow10(k) ==
  IF k = 0 THEN Big(1)
  ELSE LET p == BPow10(k - 1)
       IN <<p[1] * 10 + (p[2] * 10) \div Limb, (p[2] * 10) % Limb>>

RECURSIVE DigitsFrom(_, _)
DigitsFrom(m, k) == IF BLt(m, BPow10(k)) THEN k ELSE DigitsFrom(m, k + 1)

\* The i-th group of nine bits of a non-negative value, i in 0..5.
BChunk(m, i) ==
  IF i < 3 THEN (m[2] \div Pow(512, i)) % 512
           ELSE (m[1] \div Pow(512, i - 3)) % 512

\* Long division of m in 0..2^54-1 by d in 1..2^22-1, nine bits at a time
\* from group i upwards: <<quotient, remainder>> of floor(m / 512^i) by d,
\* the quotient kept in place.
RECURSIVE BDivMod(_, _, _)
BDivMod(m, d, i) ==
  IF i > 5 THEN <<Big(0), 0>>
  ELSE LET up == BDivMod(m, d, i + 1)
           t == up[2] * 512 + BChunk(m, i)
           q == t \div d
       IN <<IF i < 3 THEN <<up[1][1], up[1][2] + q * Pow(512, i)>>
                     ELSE <<up[1][1] + q * Pow(512, i - 3), 0>>,
            t % d>>

\* How x / d compares with 2^-e, for x in 1..d-1: -1 below, 0 equal, 1 above.
AgainstHalfUlp(x, d, e) ==
  IF e >= 30 THEN 1
  ELSE LET p == Pow(2, e)
       IN IF x <= (d - 1) \div p THEN -1
          ELSE IF d % p = 0 /\ x = d \div p THEN 0 ELSE 1

\* Math.ceil(min / d) * d in doubles, d a positive integer.  With M the
\* integer part of |min| / d and r the remainder, the doubles from M to M + 1
\* are 2^(b - 53) apart, b the bit length of M: the quotient rounds to M or to
\* M + 1 when it is within half of that, a tie going to the even mantissa.
\* The product of the ceiling and d is then rounded to a double.
firstTickOf(min, d) ==
  LET m == BAbs(min)
      qr == BDivMod(m, d, 0)
      M == qr[1]
      r == qr[2]
      b == BBitLength(M)
      down == AgainstHalfUlp(r, d, 54 - b)
      up == AgainstHalfUlp(d - r, d, 54 - b)
      toM == down = -1 \/ (down = 0 /\ (b < 53 \/ M[2] % 2 = 0))
      toM1 == up = -1 \/ (up = 0 /\ (b < 53 \/ M[2] % 2 = 1))
      product == IF r = 0 THEN min
                 ELSE IF min[1] >= 0
                   THEN IF toM THEN BAdd(min, -r) ELSE BAdd(min, d - r)
                   ELSE IF toM1 THEN BAdd(min, r - d) ELSE BAdd(min, r)
  IN RoundToDouble(product)

BMax(a, b) == IF BLt(a, b) THEN b ELSE a

\* estimateNumberWidth: eight pixels a character of the decimal text, a
\* character more for the sign, and four of padding.
estimateNumberWidth(num) ==
  (DigitsFrom(BAbs(num), 1) + (IF num[1] < 0 THEN 1 ELSE 0)) * 8 + 4

niceIntervals == <<1, 2, 5, 10>>

\* getNiceTickInterval(range, maxTicks) for an integer range below 2^30.
\* range / 0 is Infinity, NaN or -Infinity: Infinity passes every test up to
\* the first return of the loop, NaN fails them all and comes out of the last
\* return, -Infinity is <= 1.  Math.floor(Math.log10(n)) is the number of
\* digits of n less one (an implementation that gives one less at a power of
\* ten returns the same interval, as 10 times the smaller magnitude).
getNiceTickInterval(range, maxTicks) ==
  IF maxTicks = 0
    THEN IF range > 0 THEN Infinity ELSE IF range = 0 THEN NaN ELSE Num(1)
    ELSE LET minInterval == Ceil(Norm(range, maxTicks))
             magnitude == Pow(10, DigitsFrom(Big(minInterval), 1) - 1)
             fits == {i \in DOMAIN niceIntervals :
                        niceIntervals[i] * magnitude >= minInterval}
         IN IF minInterval <= 1 THEN Num(1)
            ELSE IF fits # {}
              THEN Num(niceIntervals[CHOOSE i \in fits :
                                       \A j \in fits : i <= j] * magnitude)
              ELSE Num(niceIntervals[4] * magnitude * 10)

\* pixelsPerTick of getTickPositions.
pixelsPerTick(range, considerNumberWidth) ==
  IF considerNumberWidth
    THEN Max(estimateNumberWidth(BMax(BAbs(range.min), BAbs(range.max))), 20)
    ELSE 20

\* maxTicks of getTickPositions: Math.floor(width / pixelsPerTick).
maxTicksOf(range, width, considerNumberWidth) ==
  width \div pixelsPerTick(range, considerNumberWidth)

\* x of a tick: (value - range.min) / (range.max - range.min), a rational
\* as Num, or NaN for 0 / 0 and Infinity for a division of another value by 0.
tickX(value, range) ==
  LET n == BDiff(value, range.min)
      d == BDiff(range.max, range.min)
  IN [inf |-> IF d # 0 THEN 0 ELSE IF n = 0 THEN 2 ELSE 1,
      v |-> IF d # 0 THEN Norm(n, d) ELSE R(0)]

\* The ticks a run of the loop may hold in the model.
MaxTicksHeld == 24

\* getTickPositions(range, width, considerNumberWidth) up to its loop: the
\* interval, the first tick (NaN when the interval is Infinity or NaN: the
\* quotient is 0 or NaN) and the last one, Math.floor(range.max).  value is
\* a number as Num makes them, of a pair, or NaN (inf 2).
TickCall(range, width, considerNumberWidth) ==
  /\ tickRun.pc \in {"idle", "done"}
  /\ LET tickInterval == getNiceTickInterval(
                           BDiff(range.max, range.min),
                           maxTicksOf(range, width, considerNumberWidth))
     IN tickRun' = [pc |-> "loop",
                    range |-> range,
                    width |-> width,
                    considerNumberWidth |-> considerNumberWidth,
                    tickInterval |-> tickInterval,
                    lastTick |-> range.max,
                    value |-> IF tickInterval.inf = 0
                                THEN [inf |-> 0,
                                      v |-> firstTickOf(range.min,
                                                        tickInterval.v)]
                                ELSE [inf |-> 2, v |-> Big(0)],
                    ticks |-> <<>>]
  /\ UNCHANGED <<clientVars, viewVars, workerVars, compareVars, canvasVars,
                 hookVars, tabVars>>

\* value <= lastTick, which is false of NaN.
tickLoopGoesOn ==
  tickRun.value.inf = 0 /\ BLe(tickRun.value.v, tickRun.lastTick)

\* One turn of the loop: every value is an integer, so the tick is pushed;
\* then value += tickInterval, the sum rounded to a double.
TickLoop ==
  /\ tickRun.pc = "loop"
  /\ tickLoopGoesOn
  /\ Len(tickRun.ticks) < MaxTicksHeld
  /\ tickRun' =
       [tickRun EXCEPT
          !.ticks = Append(@, [value |-> tickRun.value.v,
                               x |-> tickX(tickRun.value.v, tickRun.range)]),
          !.value = [inf |-> 0,
                     v |-> RoundToDouble(BAdd(tickRun.value.v,
                                              tickRun.tickInterval.v))]]
  /\ UNCHANGED <<clientVars, viewVars, workerVars, compareVars, canvasVars,
                 hookVars, tabVars>>

\* The loop test fails and getTickPositions returns ticks.
TickReturn ==
  /\ tickRun.pc = "loop"
  /\ ~tickLoopGoesOn
  /\ tickRun' = [tickRun EXCEPT !.pc = "done"]
  /\ UNCHANGED <<clientVars, viewVars, workerVars, compareVars, canvasVars,
                 hookVars, tabVars>>

\* Integer axis ranges: small ones, and ones about 2^53.
TickMins ==
  {Big(-7), Big(0), Big(3), Big(96),
   <<Pow(2, 26) - 1, Limb - 2>>, <<Pow(2, 26), 0>>}

TickSpans == {0, 1, 7, 40, 1000, 250000}

TickRanges ==
  {[min |-> min, max |-> RoundToDouble(BAdd(min, span))] :
     min \in TickMins, span \in TickSpans}

\* The drawing widths and heights: none, less than a tick, and more.
TickWidths == {0, 19, 20, 50, 130, 400}

TickStart ==
  \E range \in TickRanges, width \in TickWidths, consider \in BOOLEAN :
    TickCall(range, width, consider)

TickNext == TickStart \/ TickLoop \/ TickReturn

TickSpec == WorkerStart /\ [][TickNext]_vars

\* The loop is taken whenever it can be.
TickFairSpec == TickSpec /\ WF_vars(TickLoop) /\ WF_vars(TickReturn)

----------------------------------------------------------------------------
(* BenchmarkView: the tabs reducer *)

\* A tab is modelled by its id: its label and its route are functions of it.
OpenableTabs == {"dataset-1", "dataset-2", "algorithm-A", "algorithm-B"}

TabIds == {"datasets", "algorithms"} \cup OpenableTabs

\* CLOSE_TAB returns the state as it is for the two fixed tabs.
isFixedTabNever(payload) == FALSE

isFixedTab(payload) == payload = "datasets" \/ payload = "algorithms"

\* tabsReducer for ADD_TAB, SET_ACTIVE_TAB and CLOSE_TAB (REORDER_TABS is
\* dispatched nowhere).  newTabs[newTabs.length - 1].id throws on an empty
\* list, which leaves the state of useReducer as it was.
tabsReducer(state, action) ==
  CASE action.type = "ADD_TAB" ->
         IF \E i \in DOMAIN state.tabs : state.tabs[i] = action.payload
           THEN [state EXCEPT !.activeTabId = action.payload]
           ELSE [tabs |-> Append(state.tabs, action.payload),
                 activeTabId |-> action.payload]
    [] action.type = "SET_ACTIVE_TAB" ->
         [state EXCEPT !.activeTabId = action.payload]
    [] action.type = "CLOSE_TAB" ->
         IF isFixedTab(action.payload)
           THEN state
           ELSE LET newTabs == SelectSeq(state.tabs,
                                         LAMBDA tab : tab # action.payload)
                IN IF state.activeTabId = action.payload
                     THEN IF newTabs = <<>>
                            THEN state
                            ELSE [tabs |-> newTabs,
                                  activeTabId |-> newTabs[Len(newTabs)]]
                     ELSE [state EXCEPT !.tabs = newTabs]
    [] OTHER -> state

\* dispatch(action): the state of useReducer becomes what the reducer returns.
Dispatch(action) ==
  /\ tabsState' = tabsReducer(tabsState, action)
  /\ tabAction' = action
  /\ UNCHANGED <<clientVars, viewVars, workerVars, compareVars, canvasVars,
                 hookVars, tickVars>>

\* The route effect of BenchmarkView: the route names a dataset or an
\* algorithm, and its tab is added or activated.
AddTab ==
  \E id \in OpenableTabs : Dispatch([type |-> "ADD_TAB", payload |-> id])

\* handleTabClick on one of the tabs shown, or the route effect on /datasets
\* or /algorithms.
SetActiveTab ==
  \E i \in DOMAIN tabsState.tabs :
    Dispatch([type |-> "SET_ACTIVE_TAB", payload |-> tabsState.tabs[i]])

\* CLOSE_TAB for any id: the close button dispatches it for the tab it is on.
CloseTab ==
  \E id \in TabIds : Dispatch([type |-> "CLOSE_TAB", payload |-> id])

TabNext == AddTab \/ SetActiveTab \/ CloseTab

TabSpec == Init /\ [][TabNext]_vars

----------------------------------------------------------------------------
(* Properties of the data client *)

AllCalls == calls \cup settled

\* The chunk indices whose timepoint span meets [start, end).
ChunksMeeting(start, end) == (start \div chunkSize)..((end - 1) \div chunkSize)

\* The samples fetchRange(start, end, channel) is to return: element
\* (start + i) * numChannels + channel of the blob, for i = 0 .. end-start-1.
ExpectedSamples(start, end, channel) ==
  [j \in 1..(end - start) |->
     SourceElement((start + j - 1) * info.numChannels + channel)]

\* C1: at most one network request per chunk index is outstanding at any
\* time, and every suspended fetchRange call that still needs a chunk awaits
\* the one pending promise registered for that chunk.
C1_OneRequestPerChunk ==
  /\ \A r1, r2 \in network : r1.chunk = r2.chunk => r1 = r2
  /\ DOMAIN inProgressFetches = {r.chunk : r \in network}
  /\ \A r \in network : inProgressFetches[r.chunk] = r.id
  /\ \A c \in calls :
       /\ c.waiting # {}
       /\ \A k \in SeqRange(c.chunkIndices) :
            \/ k \in DOMAIN c.got
            \/ k \in DOMAIN inProgressFetches /\ inProgressFetches[k] \in c.waiting

\* C1 witness: two suspended calls await the same request, one of them
\* without having issued it.
C1_Witness ==
  \E c1, c2 \in calls :
    /\ c1 # c2
    /\ \E r \in network :
         /\ r.id \in c1.waiting /\ r.id \in c2.waiting
         /\ r.chunk \notin c2.issued

\* C2 (as claimed): a fetchRange with 0 <= start < end <= shape and a valid
\* channel, on an initialised client whose requests the server answers,
\* returns end - start samples, the i-th being blob element
\* (start + i) * numChannels + channel.
C2_RangeReturnsSourceSamples ==
  \A c \in settled :
    (c.error \notin {"Failed to fetch", "Data type not initialized"}) =>
      /\ c.status = "resolved"
      /\ Len(c.result) = c.end - c.start
      /\ c.result = ExpectedSamples(c.start, c.end, c.channel)

\* C3 (as claimed): fetchRange(start, end, channel) asks for exactly the chunks
\* floor(start/chunkSize) .. floor((end-1)/chunkSize): it requests none
\* outside them.
C3_FetchesOnlyChunksMeetingRange ==
  \A c \in AllCalls :
    c.error # "Data type not initialized" =>
      /\ c.issued \subseteq ChunksMeeting(c.start, c.end)
      /\ SeqRange(c.chunkIndices) = ChunksMeeting(c.start, c.end)

\* C4: a fetchRange call made after a successful call that needed the same
\* chunks (in particular one for the same range) issues no network request.
C4_CacheHit ==
  \A c \in AllCalls : c.repeat => c.issued = {} /\ c.status = "resolved"

\* C4 witness: a call for chunks that an earlier call fetched resolves
\* without a request.
C4_Witness ==
  \E c \in settled : c.repeat /\ c.status = "resolved" /\ c.chunkIndices # <<>>

\* C27 (as claimed): every request outstanding carries, for its chunk k,
\* the range from k * chunkSize * numChannels * elementSize to
\* min((k + 1) * chunkSize, shape) * numChannels * elementSize - 1, which is
\* not empty and ends inside the blob; and its chunk starts before shape.
C27_RequestRangesWellFormed ==
  \A r \in network :
    /\ dtype \in DTypes
    /\ r.first = r.chunk * chunkSize * numChannels * BytesPerElement(dtype)
    /\ r.last = Min((r.chunk + 1) * chunkSize, shape) * numChannels
                   * BytesPerElement(dtype) - 1
    /\ r.first <= r.last
    /\ r.last < BlobSize
    /\ r.chunk * chunkSize < shape

\* C26: a cache entry, once written, is never overwritten, changed or
\* removed, so it is written at most once; and an entry appears only in the
\* step that completes the request of its chunk with a response that is ok,
\* as the typed array over that response's body.  No fetchRange call or
\* continuation writes to the cache.
C26_CacheWrittenOnceByFetch ==
  [][/\ \A k \in DOMAIN cache : k \in DOMAIN cache' /\ cache'[k] = cache[k]
     /\ \A k \in DOMAIN cache' \ DOMAIN cache :
          \E req \in network \ network' :
            /\ req.chunk = k
            /\ dtype \in DTypes
            /\ \E resp \in ServerResponses(req.first, req.last) :
                 resp.ok /\ cache'[k] = TypedArray(resp.body, dtype)]_vars

\* C26 witness: two chunks are cached, each as the elements of its bytes of
\* the blob, and a call has since been resolved from the cache alone.
C26_Witness ==
  /\ Cardinality(DOMAIN cache) >= 2
  /\ \A k \in DOMAIN cache :
       cache[k] = TypedArray(BlobBytes(ChunkRequest(k).first, ChunkRequest(k).last),
                             dtype)
  /\ \E c \in settled :
       c.status = "resolved" /\ c.issued = {} /\ Len(c.chunkIndices) >= 2

\* C5: when the request of a chunk fails, every fetchRange call awaiting the
\* chunk is rejected, the chunk is not cached, its in-progress entry is
\* removed, and the next fetchChunk of it starts a new request.
C5_FailedFetchIsRetried ==
  [][\A req \in network :
       \A resp \in ServerResponses(req.first, req.last) \cup {NetworkError} :
         (Respond(req, resp) /\ ~GoodResponse(resp)) =>
            /\ \A c \in calls : req.id \in c.waiting =>
                 \E d \in settled' :
                   /\ d.status = "rejected"
                   /\ d.start = c.start /\ d.end = c.end /\ d.channel = c.channel
            /\ \A c \in calls' : req.id \notin c.waiting
            /\ req.chunk \notin DOMAIN cache'
            /\ req.chunk \notin DOMAIN inProgressFetches'
            /\ (fetchChunk(req.chunk, inProgressFetches))' = "new"]_vars

\* C5 witness: a call has been rejected by a failed chunk request and the
\* chunk is neither cached nor in progress.
C5_Witness ==
  \E c \in settled :
    /\ c.status = "rejected"
    /\ c.error \in {"Failed to fetch", "Failed to fetch chunk"}
    /\ \E k \in SeqRange(c.chunkIndices) :
         k \notin DOMAIN cache /\ k \notin DOMAIN inProgressFetches

----------------------------------------------------------------------------
(* Properties of the viewer *)

\* C6: once the client is initialised, no sequence of pans, zooms, zoom
\* resets, bar clicks and selections gives an xRange with min < 0 or with
\* max > shape - 1.
C6_RangeWithinData ==
  client => ~RLt(xRange.min, R(0)) /\ ~RLt(R(shape - 1), xRange.max)

\* C6 witness: the window has been widened by a zoom-out and then moved to
\* the right by half its width by an accepted pan, the drag still going on.
C6_Witness ==
  LET size == RSub(xRange.max, xRange.min)
      half == MarginLeft + DrawWidth \div 2
  IN /\ client
     /\ isDragging /\ lastDragX = half
     /\ RLt(R(InitialMax), size)
     /\ xRange.min = RMul(size, Norm(Width - MarginRight - half, DrawWidth))

\* C7 (as claimed): every state of the viewer with its client initialised
\* has 0 <= xRange.min < xRange.max <= shape - 1.
C7_RangeOrdered ==
  client =>
    /\ RLe(R(0), xRange.min)
    /\ RLt(xRange.min, xRange.max)
    /\ RLe(xRange.max, R(shape - 1))

\* C34 (as claimed): selectedIndex is -1 or a timepoint of the dataset,
\* 0 .. shape - 1, whatever pixel of the viewer was clicked, the margins
\* included, and whatever the window was.
C34_SelectionIsTimepoint ==
  selectedIndex = -1 \/ selectedIndex \in 0..(shape - 1)

\* C36 (as claimed): no event of a drag gesture, pointer-down, pointer-moves,
\* pointer-up and the click delivered after it, changes selectedIndex.
C36_DragKeepsSelection ==
  [][selectedIndex' = selectedIndex]_vars

\* The window a zoom is to give: half the new width to each side of the
\* centre c, which is the selected index when there is one and the middle of
\* the window otherwise, cut at 0 and at shape - 1.
ZoomedWindow(half) ==
  LET c == IF selectedIndex # -1 THEN R(selectedIndex)
           ELSE RDiv(RAdd(xRange.min, xRange.max), R(2))
  IN [min |-> RMax(R(0), RSub(c, half)), max |-> RMin(R(shape - 1), RAdd(c, half))]

ZoomFormulas ==
  LET w == RSub(xRange.max, xRange.min)
  IN /\ ZoomIn => xRange' = ZoomedWindow(RDiv(w, R(3)))
     /\ ZoomOut => xRange' = ZoomedWindow(RMul(w, <<3, 4>>))

ZoomExample == ZoomIn /\ selectedIndex = 500 /\ xRange = [min |-> R(0), max |-> R(999)]

\* C22 (as claimed): zoom-in gives {max(0, c - w/3), min(shape - 1, c + w/3)}
\* and zoom-out {max(0, c - 0.75 w), min(shape - 1, c + 0.75 w)}; zoom-in on
\* selectedIndex 500 with the window {0, 999} gives {166.67, 833.33} to two
\* decimals.
C22_ZoomExampleAsClaimed ==
  [][/\ ZoomFormulas
     /\ ZoomExample =>
          /\ RLe(<<33333, 200>>, xRange'.min) /\ RLe(xRange'.min, <<33335, 200>>)
          /\ RLe(<<166665, 200>>, xRange'.max) /\ RLe(xRange'.max, <<166667, 200>>)]_vars

\* C22 (amended): the same two formulas; zoom-in on selectedIndex 500 with
\* the window {0, 999}, of width 999, gives {167, 833}.
C22_ZoomFormulasAndExample ==
  [][/\ ZoomFormulas
     /\ ZoomExample => xRange' = [min |-> R(167), max |-> R(833)]]_vars

\* C22 witness: the window {167, 833} follows one zoom on selectedIndex 500.
C22_Witness ==
  /\ selectedIndex = 500
  /\ rangeOps = 1
  /\ xRange = [min |-> R(167), max |-> R(833)]
  /\ view.dataT.set /\ Len(view.dataT.v) = 833 + 1 - 167

\* C24: a pointer-move during a drag whose translated window would have
\* min < 0 or max > shape - 1 leaves xRange, lastDragX, isDragging and
\* selectedIndex as they are; one that is accepted shifts min and max by the
\* same data delta, so the width stays, and sets lastDragX to the pointer.
C24_PanRejectedOrShifted ==
  [][\A x \in Pixels :
       (MouseMove(x) /\ isDragging /\ lastDragX # 0) =>
         LET size == RSub(xRange.max, xRange.min)
             delta == RMul(size, Norm(x - lastDragX, Width - MarginLeft - MarginRight))
             newMin == RSub(xRange.min, delta)
             newMax == RSub(xRange.max, delta)
         IN IF RLt(newMin, R(0)) \/ RLt(R(shape - 1), newMax)
              THEN UNCHANGED <<xRange, lastDragX, isDragging, selectedIndex>>
              ELSE /\ xRange' = [min |-> newMin, max |-> newMax]
                   /\ RSub(xRange'.max, xRange'.min) = size
                   /\ lastDragX' = x
                   /\ UNCHANGED <<isDragging, selectedIndex>>]_vars

\* C24 witness: the window {250, 750} was dragged to the left by half the
\* drawing width and is now {500, 1000}, the drag still going on.
C24_Witness ==
  /\ isDragging
  /\ lastDragX = MarginLeft + DrawWidth \div 2
  /\ rangeOps = 1
  /\ xRange = [min |-> R(500), max |-> R(1000)]

\* The data position of pixel x of the navigation bar.
ClickedValue(x) ==
  RAdd(totalRange.min,
       RMul(Norm(x - NavPadding, Width - 2 * NavPadding),
            RSub(totalRange.max, totalRange.min)))

\* C25: a click on the navigation bar, the view being no wider than the
\* total range, gives a view inside the total range, as wide as the view
\* was, and centred on the clicked position when the view so centred is
\* inside the total range.
C25_BarClickKeepsWidthInsideTotal ==
  [][\A x \in Pixels :
       LET size == RSub(xRange.max, xRange.min)
           half == RDiv(size, R(2))
           c == ClickedValue(x)
       IN (NavClick(x) /\ RLe(size, RSub(totalRange.max, totalRange.min))) =>
            /\ RLe(totalRange.min, xRange'.min)
            /\ RLe(xRange'.max, totalRange.max)
            /\ RSub(xRange'.max, xRange'.min) = size
            /\ (RLe(totalRange.min, RSub(c, half)) /\ RLe(RAdd(c, half), totalRange.max))
                 => xRange' = [min |-> RSub(c, half), max |-> RAdd(c, half)]]_vars

\* C25 witness: the window {250, 750} was centred by one click on the
\* position of the pixel in the middle of the drawing area.
C25_Witness ==
  LET c == ClickedValue(MarginLeft + DrawWidth \div 2)
  IN /\ rangeOps = 1
     /\ xRange = [min |-> RSub(c, R(250)), max |-> RAdd(c, R(250))]
     /\ RLt(R(750), xRange.min)

\* The timepoints of the window: floor(min) .. ceil(max).
WindowTimepoints(range) ==
  [i \in 1..(Ceil(range.max) - Floor(range.min) + 1) |-> Floor(range.min) + i - 1]

\* C10 (as claimed): once no load and no chunk request is pending, the
\* series held for rendering is the one of the current window: dataT runs
\* from floor(xRange.min) to ceil(xRange.max).
C10_HeldSeriesIsCurrent ==
  (/\ client
   /\ loads = <<>> /\ network = {}
   /\ view.error = "null" /\ view.dataT.set
   /\ RLt(xRange.min, xRange.max))
    => view.dataT.v = WindowTimepoints(xRange)

\* C17 (as claimed): a client is initialised only with one of the six
\* supported dtypes; every other dtype string makes initialisation fail.
C17_OnlySupportedDTypes == dtype # "null" => dtype \in DTypes

\* The record of a call that fetchRange rejects before it looks at a chunk.
Thrown(start, end, channel, message) ==
  [tag |-> 0, start |-> start, end |-> end, channel |-> channel,
   chunkIndices |-> <<>>, waiting |-> {}, got |-> EmptyMap, issued |-> {},
   repeat |-> FALSE, status |-> "rejected", result |-> <<>>, error |-> message]

\* C16: fetchRange on a client that is not initialised rejects with "Data type
\* not initialized", and on an initialised client with a channel outside
\* [0, numChannels) it rejects with "Invalid channel"; either way the call
\* settles at once, no request is issued, and the cache and the in-flight
\* set stay as they were.
C16_InvalidCallsRejectedWithoutEffect ==
  [][\A start \in 0..MaxShape, end \in 0..MaxShape, channel \in -1..MaxChannels :
       (/\ FetchRange(start, end, channel)
        /\ (dtype = "null" \/ channel < 0 \/ channel >= numChannels))
       => /\ settled' = {Thrown(start, end, channel,
                           IF dtype = "null" THEN "Data type not initialized"
                           ELSE "Invalid channel")}
          /\ network' = network
          /\ cache' = cache
          /\ inProgressFetches' = inProgressFetches
          /\ calls' = calls]_vars

\* An initialised client with a chunk cached and a request in flight has just
\* rejected a call for a channel outside the dataset.
C16_Witness ==
  /\ dtype # "null"
  /\ network # {}
  /\ DOMAIN cache # {}
  /\ \E c \in settled : c.error = "Invalid channel" /\ c.channel = numChannels

\* The pan, zoom, navigation and selection inputs of the viewer.
ViewerInput ==
  PointerDown \/ PointerMove \/ PointerUp \/ Click \/ ZoomIn \/ ZoomOut
    \/ ZoomReset \/ BarClick

\* C11 (as claimed): after a load has failed the viewer still accepts pan,
\* zoom, navigation-bar and selection inputs.
C11_InteractiveAfterFailure ==
  (client /\ view.error # "null" /\ Len(loads) < MaxPending)
    => ENABLED ViewerInput

----------------------------------------------------------------------------
(* Properties of the render throttle *)

LastOf(seq) == seq[Len(seq)]

\* The requests of the latest burst (those received within one throttle
\* interval of its first) that were executed, and those acknowledged.
BurstExecuted == SelectSeq(executed, LAMBDA n : n >= burstFirst)
BurstAcks == SelectSeq(acks, LAMBDA n : n >= burstFirst)

\* C8 (as claimed): of the requests received within one throttle interval,
\* only the last is executed, and render_complete is posted at most once.
C8_OnlyLastExecuted ==
  burstFirst >= 1 =>
    /\ \A i \in DOMAIN BurstExecuted : BurstExecuted[i] = received
    /\ Len(BurstAcks) <= 1

\* C8 (amended): of the requests received within one throttle interval by a
\* worker that has not rendered in the 100 ms before the first of them, the
\* first is executed on receipt, at most one more is executed and that one
\* is the last received; render_complete is posted for exactly the executed
\* requests, so for no request between the first and the last.
C8_FirstThenLastExecuted ==
  (burstFirst >= 1 /\ burstIdle) =>
    /\ Len(BurstExecuted) \in {1, 2}
    /\ BurstExecuted[1] = burstFirst
    /\ Len(BurstExecuted) = 2 =>
         received > burstFirst /\ BurstExecuted[2] = received
    /\ BurstAcks = BurstExecuted

\* C8 witness: three requests came within one interval, the first and the
\* last were executed and acknowledged, and the one between them was dropped.
C8_Witness ==
  /\ burstFirst = 1 /\ burstIdle
  /\ received = MaxRequests
  /\ executed = <<1, MaxRequests>>
  /\ acks = executed
  /\ renderStack = <<>>

\* C28: the renders executed follow the order of receipt: a step that
\* executes a render executes one, that of the newest request received up to
\* then, which was received after every request executed before.
C28_ExecutedNewestInOrder ==
  [][executed' # executed =>
       /\ executed' = Append(executed, received')
       /\ \A i \in DOMAIN executed : executed[i] < received']_vars

\* C28 witness: of the requests received the first and the last were
\* executed, in that order, the last from a timer; the timer of the request
\* dropped between them is still to run.
C28_Witness ==
  /\ received = MaxRequests
  /\ Len(executed) = 2
  /\ executed[1] = 1 /\ executed[2] = MaxRequests
  /\ renderStack = <<>>
  /\ timers # <<>>
  /\ sinceLastRender = 0

\* C29: a render is executed only more than 100 ms after the render
\* executed before it, on the worker's clock; a request received 100 ms or
\* less after the latest executed render is not executed on receipt but put
\* on the stack, with a timer to check again.
C29_RendersMoreThanIntervalApart ==
  [][/\ executed' # executed =>
          sinceLastRender > ThrottleMs /\ sinceLastRender' = 0
     /\ (received' # received /\ sinceLastRender <= ThrottleMs) =>
          /\ executed' = executed
          /\ renderStack' = Append(renderStack, received')
          /\ Len(timers') = Len(timers) + 1]_vars

\* C29 witness: the second request came exactly 100 ms after the first was
\* executed and was deferred to a timer.
C29_Witness ==
  /\ received = 2
  /\ executed = <<1>>
  /\ sinceLastRender = ThrottleMs
  /\ renderStack = <<2>>
  /\ timers = <<RecheckMs>>

\* C9: the request received last is eventually executed and acknowledged,
\* unless a later request arrives.
C9_LastRequestEventuallyRendered ==
  \A n \in 1..MaxRequests :
    (received = n) ~>
      (\/ received # n
       \/ /\ renderStack = <<>>
          /\ executed # <<>> /\ LastOf(executed) = n
          /\ acks # <<>> /\ LastOf(acks) = n)

\* C9 witness: requests arrived in two bursts, the last one was deferred to
\* a timer, and it has been executed and acknowledged while a timer of an
\* earlier request is still pending.
C9_Witness ==
  /\ received = MaxRequests
  /\ burstFirst > 1
  /\ renderStack = <<>>
  /\ Len(executed) >= 2
  /\ LastOf(executed) = MaxRequests
  /\ LastOf(acks) = MaxRequests
  /\ timers # <<>>

\* C12 (as claimed): for an original and a reconstructed series of the same
\* length n the residual series has length n and its element i is
\* original[i] - reconstructed[i].
C12_ResidualIsDifference ==
  (/\ dataYReconstructed.set
   /\ Len(dataYReconstructed.v) = Len(view.dataY.v))
  => /\ dataYResiduals.set
     /\ Len(dataYResiduals.v) = Len(view.dataY.v)
     /\ \A i \in DOMAIN view.dataY.v :
          dataYResiduals.v[i] = view.dataY.v[i] - dataYReconstructed.v[i]

\* C13 (as claimed): when a reconstructed load delivers a series whose length
\* differs from that of the original series held, no residual series is held
\* afterwards.
C13_NoResidualOnLengthMismatch ==
  [][(/\ Len(reconLoads') < Len(reconLoads)
      /\ dataYReconstructed'.set
      /\ dataYReconstructed' # dataYReconstructed
      /\ view.dataY.set
      /\ Len(dataYReconstructed'.v) # Len(view.dataY.v))
     => dataYResiduals' = Null]_vars

\* C14: while a reconstruction is selected the viewer does not rest on "all
\* channels": selecting a reconstruction in the all-channels view leaves
\* selectedChannel at 0, and so does choosing "all" in the channel select or
\* the default of the client-initialised effect while one is selected.
C14_AllChannelsForcedToZero ==
  /\ [](reconstructedInfo # "null" => selectedChannel # AllChannels)
  /\ [][(/\ reconstructedInfo' # "null"
          /\ reconstructedInfo' # reconstructedInfo
          /\ selectedChannel = AllChannels) => selectedChannel' = 0]_vars
  /\ [][(/\ reconstructedInfo # "null"
          /\ client' /\ ~client
          /\ numChannels > 1) => selectedChannel' = 0]_vars

\* A reconstruction was selected in the all-channels view: the channel is 0
\* while a load of all channels is still suspended, and the
\* reconstructed-client effect has run for "all" and again for 0.
C14_Witness ==
  /\ reconstructedInfo # "null"
  /\ selectedChannel = 0
  /\ numChannelsState > 1
  /\ \E i \in DOMAIN loads : loads[i].channel = AllChannels
  /\ Len(reconCreates) = 2

\* C15: with no reconstruction selected the comparison mode is "original",
\* and a step that changes the mode to another one is taken with a
\* reconstruction selected before and after it.
C15_ModeOriginalWithoutReconstruction ==
  /\ [](reconstructedInfo = "null" => comparisonMode = "original")
  /\ [][(comparisonMode' # comparisonMode /\ comparisonMode' # "original")
          => (reconstructedInfo # "null" /\ reconstructedInfo' # "null")]_vars

\* The selection was cleared after the mode had been changed: a reconstructed
\* load started under another mode is still suspended.
C15_Witness ==
  /\ reconstructedInfo = "null"
  /\ comparisonMode = "original"
  /\ reconLoads # <<>>

\* The least and the greatest element of the series given.
SpanOf(series) ==
  [min |-> Least({computeMin(y) : y \in series}),
   max |-> Greatest({computeMax(y) : y \in series})]

\* The y-range of the render message the view's state gives.
SentYRange == yRange(view, dataYReconstructed, dataYResiduals, comparisonMode)

\* C32, residuals mode: the range spans the residual series held, which is
\* the difference of the original and the reconstructed series held.
YRangeOfResiduals ==
  (comparisonMode = "residuals" /\ dataYResiduals.set) =>
    /\ SentYRange = SpanOf({dataYResiduals.v})
    /\ dataYReconstructed.set
    /\ Len(dataYReconstructed.v) = Len(view.dataY.v)
    /\ dataYResiduals.v = [i \in DOMAIN view.dataY.v |->
                             view.dataY.v[i] - dataYReconstructed.v[i]]

\* C32, the other modes: the range spans the original series and, when one
\* is held, the reconstructed series.
YRangeOfSeries ==
  comparisonMode # "residuals" =>
    SentYRange = SpanOf({view.dataY.v} \cup
                        (IF dataYReconstructed.set THEN {dataYReconstructed.v}
                         ELSE {}))

\* C32 (as claimed): for single-channel data the y-range sent to the worker
\* spans, in "residuals" mode, the residual series, which is that of the
\* original and reconstructed series held; and in the other modes the
\* original series and, if present, the reconstructed series.
C32_YRangeSpansSeries ==
  (view.dataY.set /\ ~view.dataYAll.set) => YRangeOfResiduals /\ YRangeOfSeries

\* C31 (as claimed): a create of a reconstructed client is started only by
\* a step that changes reconstructedInfo to a non-null value, so not by a
\* step that only changes the selected channel, the range or the mode; and
\* once no create is pending the reconstructed client held, if any, is the
\* one of the current reconstructedInfo.
C31_ReconClientFollowsInfo ==
  /\ [][Len(reconCreates') > Len(reconCreates)
          => reconstructedInfo' # reconstructedInfo /\ reconstructedInfo' # "null"]_vars
  /\ []((reconCreates = <<>> /\ reconstructedClient # NoClient)
          => reconstructedClient = [algorithm |-> reconstructedInfo])

\* Element i (0-based) of the reconstructed blob.
ReconElement(i) ==
  LET sz == BytesPerElement(info.dtype)
  IN DecodeElement(ReconBlobBytes(i * sz, i * sz + sz - 1), info.dtype)

\* The residuals of channel ch at the timepoints given, as the Float32Array
\* holds them.
ResidualsAt(timepoints, ch) ==
  computeResiduals([i \in DOMAIN timepoints |->
                      SourceElement(timepoints[i] * info.numChannels + ch)],
                   [i \in DOMAIN timepoints |->
                      ReconElement(timepoints[i] * info.numChannels + ch)])

\* C35 (as claimed): a residual series held together with a dataT is the
\* difference of the original and the reconstructed samples of one channel
\* at the timepoints of that dataT, whatever the order of range changes and
\* fetch completions.
C35_ResidualsOfHeldRange ==
  (dataYResiduals.set /\ view.dataT.set) =>
    \E ch \in 0..(info.numChannels - 1) :
      dataYResiduals.v = ResidualsAt(view.dataT.v, ch)

\* C37 (as claimed): whenever reconstructedInfo is not null, its datasetUrl
\* and datasetJsonUrl are those of the dataset displayed, also after the
\* dataset displayed has changed.
C37_ReconstructionOfDisplayedDataset ==
  reconstructedInfo # "null" => reconstructedDataset = dataset

\* C23 (as claimed, for a viewer that stays mounted): one worker at most has
\* been created and it has not been terminated, whatever canvases the viewer
\* mounted and unmounted on width and height changes, loading states and
\* error states.
C23_OneWorkerWhileMounted ==
  /\ Len(workers) <= 1
  /\ \A w \in DOMAIN workers : ~workers[w].terminated

\* C21 (as claimed): for a message of single-channel data in "overlay" mode
\* that carries a reconstructed series, the frame the worker paints has two
\* polylines, the original series and the reconstructed series.
C21_OverlayDrawsBothSeries ==
  \A n \in DOMAIN frames :
    (/\ messages[n].comparisonMode = "overlay"
     /\ messages[n].timeseriesYReconstructed.set
     /\ ~messages[n].timeseriesYAll.set)
    => /\ Len(frames[n].paths) = 2
       /\ frames[n].paths[1].points =
            Polyline(0, messages[n].timeseriesT, messages[n].timeseriesY).points
       /\ frames[n].paths[2].points =
            Polyline(0, messages[n].timeseriesT,
                     messages[n].timeseriesYReconstructed.v).points

\* C20 (as claimed): for a message of single-channel data in "residuals"
\* mode that carries a residual series, the series the worker draws is the
\* residual series, the one the message's yRange was computed from.
C20_ResidualSeriesDrawn ==
  \A n \in DOMAIN frames :
    (/\ messages[n].comparisonMode = "residuals"
     /\ messages[n].timeseriesYResiduals.set
     /\ ~messages[n].timeseriesYAll.set)
    => /\ frames[n].paths =
            <<Polyline(0, messages[n].timeseriesT,
                       messages[n].timeseriesYResiduals.v)>>
       /\ frames[n].yRange =
            [min |-> computeMin(messages[n].timeseriesYResiduals.v),
             max |-> computeMax(messages[n].timeseriesYResiduals.v)]

\* C18 (as claimed): to every worker the controller has created, initialize
\* was sent exactly once and before any render message, and no worker was
\* sent a render message without initialize before it.
C18_InitializeOnceBeforeRender ==
  \A w \in DOMAIN workers :
    /\ Len(SelectSeq(workers[w].log, LAMBDA m : m = "initialize")) = 1
    /\ workers[w].log[1] = "initialize"
    /\ \A i \in DOMAIN workers[w].log :
         workers[w].log[i] = "render" =>
           \E j \in 1..(i - 1) : workers[w].log[j] = "initialize"

\* C30 (as claimed): once no create is pending, the client the hook exposes,
\* when it exposes one, is the client created for the dataset currently
\* selected, never one for an earlier dataset.
C30_ExposedClientIsCurrent ==
  (creates = <<>> /\ clientOf # 0) => clientOf = dataset

\* C19 (as claimed): every request the worker has answered with
\* render_complete has had its frame painted.
C19_AcknowledgedOnlyIfPainted ==
  \A i \in DOMAIN acks : acks[i] \in painted

----------------------------------------------------------------------------
(* Properties of the tabs reducer *)

\* The ids of the tabs in the list.
OpenTabs == SeqRange(tabsState.tabs)

\* The reducer closed the tab that was active.
ClosedActiveTab ==
  /\ tabAction'.type = "CLOSE_TAB"
  /\ tabAction'.payload = tabsState.activeTabId
  /\ tabsState' # tabsState

----------------------------------------------------------------------------
(* Properties of the axis ticks *)

\* A call of getTickPositions that the tick properties are about: the range
\* is an integer range with min <= max, and there is room for a tick.
TickRunCovered ==
  /\ tickRun.pc \in {"loop", "done"}
  /\ BLe(tickRun.range.min, tickRun.range.max)
  /\ maxTicksOf(tickRun.range, tickRun.width, tickRun.considerNumberWidth) >= 1

\* 1, 2, 5 or 10 times a power of ten.
IsNiceInterval(d) ==
  \E k \in 0..9, n \in {1, 2, 5, 10} : d = n * Pow(10, k)

\* The interval is nice, it is at least ceil(range / maxTicks), and ticks
\* that far apart are drawn at least pixelsPerTick apart.
TickIntervalFits ==
  LET span == BDiff(tickRun.range.max, tickRun.range.min)
      ppt == pixelsPerTick(tickRun.range, tickRun.considerNumberWidth)
      maxTicks == maxTicksOf(tickRun.range, tickRun.width,
                             tickRun.considerNumberWidth)
      d == tickRun.tickInterval.v
  IN /\ tickRun.tickInterval.inf = 0
     /\ IsNiceInterval(d)
     /\ d >= Ceil(Norm(span, maxTicks))
     /\ d * tickRun.width >= ppt * span

\* Every tick pushed lies in the range (the values of the model are integers).
TicksInRange ==
  \A i \in DOMAIN tickRun.ticks :
    /\ BLe(tickRun.range.min, tickRun.ticks[i].value)
    /\ BLe(tickRun.ticks[i].value, tickRun.range.max)

\* A turn of the loop of a covered call.
TickLoopTurn ==
  /\ TickRunCovered
  /\ tickRun.pc = "loop"
  /\ tickRun'.pc = "loop"
  /\ Len(tickRun'.ticks) > Len(tickRun.ticks)

\* C33: for an integer axis range and a size with maxTicks >= 1, the interval
\* is 1, 2, 5 or 10 times a power of ten and at least ceil(range / maxTicks),
\* adjacent ticks are at least pixelsPerTick apart, every tick is an integer
\* within [range.min, range.max], and the loop terminates: each turn moves
\* value towards lastTick, and the call returns.
C33_TicksNiceWithinRangeAndFinite ==
  /\ [](TickRunCovered => TickIntervalFits /\ TicksInRange)
  /\ [][TickLoopTurn => BLt(tickRun.value.v, tickRun'.value.v)]_vars
  /\ [](tickRun.pc = "loop" /\ TickRunCovered => <>(tickRun.pc = "done"))

====
